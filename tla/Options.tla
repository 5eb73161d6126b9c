------------------------------- MODULE Options -------------------------------
(* What the modules of a monitor process share: its services and its console, the backends
   of its machine and its plugins. *)

CONSTANT None   \* Rust's Option::None: no value, and different from every value
=============================================================================
