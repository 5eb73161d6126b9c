---------------------------- MODULE MCVmMonitor ----------------------------
(* The services of a monitor process (VmMonitor) and the hub of the serial console
   (SerialConsole), checked side by side.  They share no state, so a behaviour runs one
   part and leaves the other in its first state; fairness is that of the part that runs. *)
EXTENDS VmMonitor, SerialConsole
VARIABLE part

partVars == <<part, vars, serialVars>>

MonitorInit ==
    /\ part \in {"monitor", "serial"} /\ (part # "monitor" => mode = "none")
    /\ Init /\ SerialInit

MonitorNext ==
    /\ UNCHANGED part
    /\ \/ part = "monitor" /\ Next /\ UNCHANGED serialVars
       \/ part = "serial" /\ SerialNext /\ UNCHANGED vars

\* Fairness and SerialFairness, each for its part.
MonitorFairness ==
    /\ WF_vars(part = "monitor" /\ MainStep)
    /\ WF_vars(part = "monitor" /\ GuestServerStops)
    /\ WF_vars(part = "monitor" /\ spawn_readiness_timeout)
    /\ \A t \in Tasks : WF_vars(part = "monitor" /\ publish(t))
    /\ \A r \in Registrations : WF_vars(part = "monitor" /\ reg[r] = "flag" /\ register(r))
    /\ SF_vars(part = "monitor" /\ SocketShutdown)
    /\ \A c \in Clients : /\ WF_vars(part = "monitor" /\ HandshakeTimeout(c))
                          /\ WF_vars(part = "monitor" /\ Handler(c))
    /\ WF_serialVars(part = "serial" /\ run_serial_reader)
    /\ \A c \in Callers : WF_serialVars(part = "serial" /\ SerialAdvance(c))
    /\ \A c \in Viewers : WF_serialVars(part = "serial" /\ Is(c, "typing") /\ write_input(c))

MonitorSpec == MonitorInit /\ [][MonitorNext]_partVars /\ MonitorFairness

\* The type invariants of the two parts.
PartsTypeOK == TypeOK /\ SerialTypeOK

\* The console has one reader of the device and one owner of the keyboard, and its log has
\* no holes.
ConsoleIsOrderly == OneReader /\ OneTypist /\ LogIsContiguous

\* A client reads on without repetition, and the console is free again after its owner left.
ConsoleServes == ClientReadsOn /\ ConsoleIsFreed
=============================================================================
