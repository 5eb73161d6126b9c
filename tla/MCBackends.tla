----------------------------- MODULE MCBackends -----------------------------
(* The two backends of a machine (KrunBackend, VzBackend), the supervisor of its endpoints
   (EndpointSupervisor), the socket between the supervisor and a plugin (PluginBroker) and
   the forward plugin (ForwardPlugin), checked side by side.  They share no state, so a
   behaviour runs one part and leaves the others in their first state; fairness is that of
   the part that runs. *)
EXTENDS KrunBackend, VzBackend, EndpointSupervisor, PluginBroker, ForwardPlugin, TLC
VARIABLE part

\* The configured ports of the forward plugin.
MappingDef == 3 :> 2

partVars == <<part, krunVars, vzVars, endpointVars, brokerVars, forwardVars>>

\* What a part with several initial states looks like while another one runs.
IdleEndpoints == backend = "krun" /\ config = [e \in Endpoints |-> [mode |-> "connect", restart |-> "never"]]
IdleBroker == mode = "connect" /\ resets = FALSE
IdleForward == baseline = {}

BackendsInit ==
    /\ part \in {"krun", "vz", "endpoints", "broker", "forward"}
    /\ KrunInit /\ VzInit /\ EndpointsInit /\ BrokerInit /\ ForwardInit
    /\ part # "endpoints" => IdleEndpoints
    /\ part # "broker" => IdleBroker
    /\ part # "forward" => IdleForward

BackendsNext ==
    /\ UNCHANGED part
    /\ \/ part = "krun" /\ KrunNext /\ UNCHANGED <<vzVars, endpointVars, brokerVars, forwardVars>>
       \/ part = "vz" /\ VzNext /\ UNCHANGED <<krunVars, endpointVars, brokerVars, forwardVars>>
       \/ part = "endpoints" /\ EndpointsNext /\ UNCHANGED <<krunVars, vzVars, brokerVars, forwardVars>>
       \/ part = "broker" /\ BrokerNext /\ UNCHANGED <<krunVars, vzVars, endpointVars, forwardVars>>
       \/ part = "forward" /\ ForwardNext /\ UNCHANGED <<krunVars, vzVars, endpointVars, brokerVars>>

\* The fairness that each component's module states, for its part.
BackendsFairness ==
    /\ \A c \in Callers : WF_krunVars(part = "krun" /\ Advance(c))
    /\ WF_krunVars(part = "krun" /\ watchdog)
    /\ WF_krunVars(part = "krun" /\ helper = "killed" /\ HelperExits)
    /\ \A t \in VzTasks : SF_vzVars(part = "vz" /\ VzAdvance(t))
    /\ WF_vzVars(part = "vz" /\ ExitDelegate)
    /\ \A e \in Endpoints :
           /\ WF_endpointVars(part = "endpoints" /\ EndpointStep(e))
           /\ WF_endpointVars(part = "endpoints" /\ await_broker(e))
           /\ WF_endpointVars(part = "endpoints" /\ run_plugin_event_loop(e) /\ ep'[e].pc = "ended")
    /\ WF_endpointVars(part = "endpoints" /\ start_endpoint_supervisor)
    /\ WF_endpointVars(part = "endpoints" /\ ~ machine /\ Cancel)
    /\ \A c \in Calls : WF_brokerVars(part = "broker" /\ send_message(c))
    /\ WF_brokerVars(part = "broker" /\ ReaderStep) /\ WF_brokerVars(part = "broker" /\ SupervisorEnds)
    /\ WF_brokerVars(part = "broker" /\ recv_message)
    /\ WF_brokerVars(part = "broker" /\ connect_vsock)
    /\ WF_brokerVars(part = "broker" /\ send_reply)
    /\ WF_forwardVars(part = "forward" /\ run) /\ WF_forwardVars(part = "forward" /\ list_tcp_ports)
    /\ WF_forwardVars(part = "forward" /\ run_auto_discover)
    /\ WF_forwardVars(part = "forward" /\ Wake) /\ WF_forwardVars(part = "forward" /\ Restart)
    /\ \A p \in HostPorts : WF_forwardVars(part = "forward" /\ ListenerDropped(p))

BackendsSpec == BackendsInit /\ [][BackendsNext]_partVars /\ BackendsFairness

\* The type invariants of the parts.
PartsTypeOK == KrunTypeOK /\ VzTypeOK /\ EndpointsTypeOK /\ BrokerTypeOK /\ ForwardTypeOK

\* What the two backends promise at every moment: an exit closes the runtime, an answer is
\* true of the virtual machine, a stream is handed out once, a machine that was released has
\* stopped and a port of it has one listener.
BackendAnswers ==
    /\ ExitClosesRuntime /\ AnswersAreTrue /\ HandedOutOnce
    /\ VzAnswersAreTrue /\ ReleasedIsStopped /\ OneListener

\* A backend that is waited for, stopped or left behind by its monitor comes to an end.
BackendsSettle == WaiterIsTold /\ StopEndsHelper /\ NoOrphanHelper /\ StopReturns

\* An endpoint has one plugin at a time; the plugin's requests are answered with their own
\* streams and the guest's connections reach it in order.  A host port is bound once, leads to
\* the guest port it stands for, and the guest's own services are never promoted.
PluginsServed ==
    /\ OnePlugin /\ AnswerIsMine /\ ConnectionsInOrder
    /\ ServicesStayInside /\ PortHeldOnce /\ ReachesItsPort

\* The supervisor and the plugins make progress: a lost control socket ends the run, a
\* connect endpoint is started again, shutdown ends supervision, a request for a stream is
\* answered, and the forwarded ports follow the guest's.
PluginsSettle ==
    /\ ControlFailureEndsRun /\ ConnectRestarts /\ SupervisionEnds
    /\ ConnectIsAnswered /\ OpenPortIsForwarded /\ ClosedPortIsReleased
=============================================================================
