-------------------------------- MODULE Client --------------------------------
(***************************************************************************)
(* The life of one connection: Sv2CpuMiner (client/mod.rs), the handshake  *)
(* replies it accepts (client/common_message_handler.rs), the opening of   *)
(* channels (channel_manager/mod.rs) and the binary around it (main.rs,    *)
(* args.rs, config.rs).                                                    *)
(*                                                                         *)
(* start() is one task.  It is split at its awaits: the server, Ctrl+C and *)
(* a clone of the client that calls shutdown() act between them.  The      *)
(* connection is an external type: it carries frames while it is up, and   *)
(* it goes down when the server closes it or its token is cancelled.       *)
(*                                                                         *)
(* A definition named after another with a suffix, and introduced as a     *)
(* slip, is no part of the model: it is a mistake one could make in the    *)
(* definition that follows it, kept to see that the properties notice.     *)
(***************************************************************************)
EXTENDS Integers, Sequences, FiniteSets

CONSTANTS
  Configs,    \* the configurations to consider
  MaxFrames   \* bound: frames of the server waiting to be read

\* What decides the course of a run in an Sv2CpuMinerConfig: has_port says whether
\* server_addr is a host and a port, device_fits whether the host and device_id fit
\* the Str0255 they are sent as, identity_fits whether user_identity does; the
\* multiplier's sign ("none" is that of NaN) and the side of 1..100 the CPU usage
\* falls on ("in" it, below or above).  binary tells the program: the binary, or one
\* that embeds the library.
Config == [n_standard_channels : Nat, n_extended_channels : Nat,
           requires_standard_jobs : BOOLEAN, has_port : BOOLEAN,
           device_fits : BOOLEAN, identity_fits : BOOLEAN,
           multiplier : {"+", "0", "-", "none"},
           cpu_usage_percent : {"below", "in", "above"}, binary : BOOLEAN]

ASSUME ClientAssumption ==
  /\ Configs \subseteq Config
  /\ MaxFrames \in Nat

VARIABLES
  config,
  phase,      \* where start() is
  result,     \* what start() returned: "none" yet, "Ok", or the error
  cancelled,  \* the token every clone, the connection and the tasks share
  link,       \* "down" before the connection, "up", "closed"
  inbound,    \* frames read from the server, oldest first
  reply,      \* the frame that answered SetupConnection
  requests,   \* the OpenMiningChannel requests sent, in order
  mining,     \* are mining tasks running?
  main,       \* the program around start(): "config", "running", "shutdown", "exited"
  exit_code   \* "none", "SUCCESS", "FAILURE", or "killed" by a signal

program == <<main, exit_code>>
vars == <<config, phase, result, cancelled, link, inbound, reply, requests, mining,
          program>>

-----------------------------------------------------------------------------
(* Configuration *)

\* Slip: a configuration without channels passes.
validate_but_channels(c) ==
  /\ c.has_port
  /\ c.multiplier \notin {"0", "-"}
  /\ c.cpu_usage_percent = "in"
  /\ ~(c.requires_standard_jobs /\ c.n_extended_channels > 0)
  /\ c.device_fits /\ c.identity_fits

\* The multiplier is compared with zero: NaN is neither below it nor equal to it.
validate(c) ==
  /\ c.has_port
  /\ c.multiplier \notin {"0", "-"}
  /\ c.cpu_usage_percent = "in"
  /\ c.n_standard_channels > 0 \/ c.n_extended_channels > 0
  /\ ~(c.requires_standard_jobs /\ c.n_extended_channels > 0)
  /\ c.device_fits /\ c.identity_fits

-----------------------------------------------------------------------------
(* The server *)

ServerFlags == {"REQUIRES_FIXED_VERSION", "REQUIRES_EXTENDED_CHANNELS", "unknown"}

\* The replies to SetupConnection, and everything else that may come instead.  The
\* flags that come with another version than the one offered are never looked at.
SetupSuccess ==
  [type : {"SetupConnection.Success"}, version_offered : {TRUE},
   flags : SUBSET ServerFlags]
  \cup [type : {"SetupConnection.Success"}, version_offered : {FALSE}, flags : {{}}]
SetupError == [type |-> "SetupConnection.Error"]
\* A mining message that gives a channel work, one that does so with an extended job,
\* one with no effect here (whatever a channel refuses is logged and no more), and one
\* this miner never expects.  SetGroupChannel is as fatal as an extended job to a
\* connection of standard jobs, and without effect here on any other.
Work == [type |-> "work"]
ExtendedWork == [type |-> "extended work"]
Quiet == [type |-> "quiet"]
Unexpected == [type |-> "unexpected"]
\* A message that does not parse, of the kind expected where it is read.
Malformed == [type |-> "malformed"]

\* Before there is a reply.
NoReply == [type |-> "none"]

Frames == SetupSuccess
          \cup {SetupError, Work, ExtendedWork, Quiet, Unexpected, Malformed}

Receive(frame) ==
  /\ link = "up"
  /\ Len(inbound) < MaxFrames
  /\ inbound' = Append(inbound, frame)
  /\ UNCHANGED <<config, phase, result, cancelled, link, reply, requests, mining,
                 program>>

\* The server hangs up, or the connection ends because it was cancelled.
LinkCloses ==
  /\ link = "up"
  /\ link' = "closed"
  /\ UNCHANGED <<config, phase, result, cancelled, inbound, reply, requests, mining,
                 program>>

-----------------------------------------------------------------------------
(* new() and start() *)

Return(value) == phase' = "returned" /\ result' = value

\* The measurement of the hashrate (module Throttle).  100 less a CPU usage above 100
\* is a panic in a build that checks its arithmetic, and nothing in one that does
\* not.
New ==
  /\ phase = "measuring"
  /\ \/ /\ phase' = "connecting"
        /\ UNCHANGED result
     \/ /\ config.cpu_usage_percent = "above"
        /\ Return("panic")
  /\ UNCHANGED <<config, cancelled, link, inbound, reply, requests, mining, program>>

\* TCP and then Noise.  The token is looked at in the second only, by
\* Connection::connect, which is given it.
Connect ==
  /\ phase = "connecting"
  /\ \/ /\ phase' = "setup_send" /\ link' = "up"
        /\ UNCHANGED result
     \/ /\ Return("connect_failed")
        /\ UNCHANGED link
  /\ UNCHANGED <<config, cancelled, inbound, reply, requests, mining, program>>

\* The fields are converted before the message is sent; a string that does not
\* fit is a panic.
SendSetupConnection ==
  /\ phase = "setup_send"
  /\ \/ /\ ~config.has_port
        /\ Return("InvalidConfig")
     \/ /\ config.has_port /\ ~config.device_fits
        /\ Return("panic")
     \/ /\ config.has_port /\ config.device_fits /\ link = "closed"
        /\ Return("ChannelErrorSender")
     \/ /\ config.has_port /\ config.device_fits /\ link = "up"
        /\ phase' = "setup_reply"
        /\ UNCHANGED result
  /\ UNCHANGED <<config, cancelled, link, inbound, reply, requests, mining, program>>

\* Slip: the configured channels are not compared with the server's flags.
acceptable_to_all(frame) == frame.version_offered /\ "unknown" \notin frame.flags

\* handle_setup_connection_success
acceptable(frame) ==
  /\ frame.version_offered
  /\ "unknown" \notin frame.flags
  /\ "REQUIRES_EXTENDED_CHANNELS" \in frame.flags => config.n_standard_channels = 0

\* What ends a handshake that does not succeed.
setup_error(frame) ==
  CASE frame.type = "SetupConnection.Success" -> "SetupConnectionMismatch"
    [] frame.type = "SetupConnection.Error" -> "SetupConnectionFailed"
    [] frame = Malformed -> "Parser"
    [] OTHER -> "UnexpectedMessage"

SetupReply ==
  /\ phase = "setup_reply"
  /\ inbound # << >>
  /\ inbound' = Tail(inbound)
  /\ reply' = Head(inbound)
  /\ LET frame == Head(inbound)
     IN  \/ /\ frame \in SetupSuccess /\ acceptable(frame)
            /\ phase' = "opening"
            /\ UNCHANGED result
         \/ /\ ~(frame \in SetupSuccess /\ acceptable(frame))
            /\ Return(setup_error(frame))
  /\ UNCHANGED <<config, cancelled, link, requests, mining, program>>

\* Slip: a missing reply is waited for again.
NoSetupReply_retrying ==
  /\ phase = "setup_reply"
  /\ inbound = << >> /\ link = "closed"
  /\ UNCHANGED vars

NoSetupReply ==
  /\ phase = "setup_reply"
  /\ inbound = << >> /\ link = "closed"
  /\ Return("ChannelErrorReceiver")
  /\ UNCHANGED <<config, cancelled, link, inbound, reply, requests, mining, program>>

\* The i-th request, from 0, of the second loop.
extended_request(i) ==
  [kind |-> "extended", request_id |-> i + config.n_standard_channels]

\* Slips: the extended channels are numbered from 0 again, or the wrong way.
next_request_restarting ==
  IF Len(requests) < config.n_standard_channels
  THEN [kind |-> "standard", request_id |-> Len(requests)]
  ELSE [kind |-> "extended", request_id |-> Len(requests) - config.n_standard_channels]
next_request_backwards ==
  IF Len(requests) < config.n_standard_channels
  THEN [kind |-> "standard", request_id |-> Len(requests)]
  ELSE [kind |-> "extended", request_id |-> config.n_standard_channels - Len(requests)]

\* The request open_channels sends next: the standard channels first, numbered
\* from 0, the extended channels numbered on from there.
next_request ==
  IF Len(requests) < config.n_standard_channels
  THEN [kind |-> "standard", request_id |-> Len(requests)]
  ELSE extended_request(Len(requests) - config.n_standard_channels)

all_requested ==
  Len(requests) = config.n_standard_channels + config.n_extended_channels

\* No frame is read while the channels are being requested.  An identity that
\* does not fit is a panic.
OpenChannel ==
  /\ phase = "opening"
  /\ ~all_requested
  /\ \/ /\ ~config.identity_fits
        /\ Return("panic")
        /\ UNCHANGED requests
     \/ /\ config.identity_fits /\ link = "up"
        /\ requests' = Append(requests, next_request)
        /\ UNCHANGED <<phase, result>>
     \/ /\ config.identity_fits /\ link = "closed"
        /\ Return("ChannelErrorSender")
        /\ UNCHANGED requests
  /\ UNCHANGED <<config, cancelled, link, inbound, reply, mining, program>>

ChannelsRequested ==
  /\ phase = "opening"
  /\ all_requested
  /\ phase' = "loop"
  /\ UNCHANGED <<config, result, cancelled, link, inbound, reply, requests, mining,
                 program>>

\* The branches of the select.  When several are ready, any of them may run.
LoopCancelled ==
  /\ phase = "loop"
  /\ cancelled
  /\ Return("Ok")
  /\ UNCHANGED <<config, cancelled, link, inbound, reply, requests, mining, program>>

\* The errors a mining frame can end start() with.  A message of the wrong protocol
\* is refused by the parser or as unexpected; a channel whose task panicked with the
\* lock held is of no more use to anyone.
frame_errors(frame) ==
  CASE frame = Work -> IF mining THEN {"PoisonLock"} ELSE {}
    [] frame = ExtendedWork -> (IF config.requires_standard_jobs THEN {"StandardJobsOnly"}
                                ELSE IF mining THEN {"PoisonLock"} ELSE {})
    [] frame = Quiet -> {}
    [] frame = Unexpected -> {"UnexpectedMessage"}
    [] frame = Malformed -> {"Parser"}
    [] OTHER -> {"Parser", "UnexpectedMessage"}

\* Is the frame handled, when it is no error?
is_handled(frame) ==
  \/ frame \in {Work, Quiet}
  \/ frame = ExtendedWork /\ ~config.requires_standard_jobs

\* A handler's error ends start() at once; nobody cancels the token.
LoopFrame ==
  /\ phase = "loop"
  /\ inbound # << >>
  /\ inbound' = Tail(inbound)
  /\ LET frame == Head(inbound)
     IN  \/ /\ is_handled(frame)
            /\ mining' = (mining \/ frame # Quiet)
            /\ UNCHANGED <<phase, result>>
         \/ /\ \E error \in frame_errors(frame) : Return(error)
            /\ UNCHANGED mining
  /\ UNCHANGED <<config, cancelled, link, reply, requests, program>>

\* Slips: the end of the connection leaves the token alone, or is waited out.
LoopClosed_uncancelled ==
  /\ phase = "loop"
  /\ inbound = << >> /\ link = "closed"
  /\ Return("Ok")
  /\ UNCHANGED <<config, cancelled, link, inbound, reply, requests, mining, program>>
LoopClosed_retrying ==
  /\ phase = "loop"
  /\ inbound = << >> /\ link = "closed"
  /\ UNCHANGED vars

\* Every frame that arrived is handled before the receiver reports the end.
LoopClosed ==
  /\ phase = "loop"
  /\ inbound = << >> /\ link = "closed"
  /\ cancelled' = TRUE
  /\ Return("Ok")
  /\ UNCHANGED <<config, link, inbound, reply, requests, mining, program>>

start ==
  \/ New \/ Connect \/ SendSetupConnection \/ SetupReply \/ NoSetupReply
  \/ OpenChannel \/ ChannelsRequested \/ LoopCancelled \/ LoopFrame \/ LoopClosed

\* Slip: the tasks are told by the loop, and not by the token.
TasksStop_in_loop ==
  /\ mining /\ cancelled /\ phase = "loop"
  /\ mining' = FALSE
  /\ UNCHANGED <<config, phase, result, cancelled, link, inbound, reply, requests,
                 program>>

\* The mining tasks see the token at the top of their loops.
TasksStop ==
  /\ mining /\ cancelled
  /\ mining' = FALSE
  /\ UNCHANGED <<config, phase, result, cancelled, link, inbound, reply, requests,
                 program>>

-----------------------------------------------------------------------------
(* The program around it *)

Init ==
  /\ config \in Configs
  /\ phase = "idle"
  /\ result = "none"
  /\ cancelled = FALSE
  /\ link = "down"
  /\ inbound = << >>
  /\ reply = NoReply
  /\ requests = << >>
  /\ mining = FALSE
  /\ main = "config"
  /\ exit_code = "none"

\* The binary validates its configuration; a program that embeds the library
\* builds one and calls new() and start().
ProcessConfig ==
  /\ main = "config"
  /\ \/ /\ config.binary /\ ~validate(config)
        /\ main' = "exited" /\ exit_code' = "FAILURE"
        /\ UNCHANGED phase
     \/ /\ config.binary => validate(config)
        /\ main' = "running" /\ phase' = "measuring"
        /\ UNCHANGED exit_code
  /\ UNCHANGED <<config, result, cancelled, link, inbound, reply, requests, mining>>

\* Slip: the program exits the same way whatever start() returned.
StartReturned_ignoring_result ==
  /\ main = "running" /\ phase = "returned"
  /\ main' = "shutdown"
  /\ exit_code' = "SUCCESS"
  /\ UNCHANGED <<config, phase, result, cancelled, link, inbound, reply, requests,
                 mining>>

\* The select of main(): the outcome of start() becomes the exit status.  A
\* panic inside start() is a panic of main.
StartReturned ==
  /\ main = "running" /\ phase = "returned"
  /\ main' = "shutdown"
  /\ exit_code' = IF result = "Ok" THEN "SUCCESS" ELSE "FAILURE"
  /\ UNCHANGED <<config, phase, result, cancelled, link, inbound, reply, requests,
                 mining>>

\* Ctrl+C while new() measures: nobody listens for it yet, and it kills the process.
CtrlCInNew ==
  /\ config.binary
  /\ main = "running" /\ phase = "measuring"
  /\ phase' = "dropped"
  /\ main' = "exited" /\ exit_code' = "killed"
  /\ UNCHANGED <<config, result, cancelled, link, inbound, reply, requests, mining>>

\* Ctrl+C: start() is dropped where it is.
CtrlC ==
  /\ config.binary
  /\ main = "running" /\ phase # "measuring"
  /\ phase' = "dropped"
  /\ main' = "shutdown" /\ exit_code' = "SUCCESS"
  /\ UNCHANGED <<config, result, cancelled, link, inbound, reply, requests, mining>>

\* The binary calls shutdown() last; the process ends with every task in it.
MainShutdown ==
  /\ config.binary
  /\ main = "shutdown"
  /\ cancelled' = TRUE
  /\ main' = "exited"
  /\ UNCHANGED <<config, phase, result, link, inbound, reply, requests, mining,
                 exit_code>>

\* shutdown() on a clone of what new() returned, by a program that embeds the library.
Shutdown ==
  /\ ~config.binary
  /\ main # "config" /\ phase # "measuring"
  /\ ~cancelled
  /\ cancelled' = TRUE
  /\ UNCHANGED <<config, phase, result, link, inbound, reply, requests, mining,
                 program>>

Exited ==
  /\ main = "exited" \/ (~config.binary /\ main = "shutdown")
  /\ UNCHANGED vars

Next ==
  \/ ProcessConfig \/ StartReturned \/ CtrlCInNew \/ CtrlC
  \/ MainShutdown \/ Shutdown \/ Exited
  \/ start \/ TasksStop
  \/ \E frame \in Frames : Receive(frame)
  \/ LinkCloses

Spec == Init /\ [][Next]_vars

\* The measurement ends, as Throttle shows; start() is polled whenever one of its
\* awaits can go on; the tasks run; main runs.  A server that accepts the socket and
\* never answers the Noise handshake may keep start() waiting, until the token is
\* cancelled: then the operating system bounds what is left of the TCP attempt, and
\* the external Connection ends with its token, during the handshake and after it.
Fairness ==
  /\ WF_vars(phase # "connecting" /\ start)
  /\ WF_vars(cancelled /\ Connect)
  /\ WF_vars(cancelled /\ LinkCloses)
  /\ WF_vars(TasksStop)
  /\ WF_vars(ProcessConfig)
  /\ WF_vars(StartReturned)
  /\ WF_vars(MainShutdown)

FairSpec == Spec /\ Fairness

-----------------------------------------------------------------------------
(* Invariants *)

Errors == {"connect_failed", "InvalidConfig", "panic", "ChannelErrorSender",
           "ChannelErrorReceiver", "SetupConnectionMismatch", "SetupConnectionFailed",
           "UnexpectedMessage", "Parser", "StandardJobsOnly", "PoisonLock"}
Phases == {"idle", "measuring", "connecting", "setup_send", "setup_reply", "opening",
           "loop", "returned", "dropped"}
Request == [kind : {"standard", "extended"}, request_id : Nat]

TypeOK ==
  /\ config \in Config
  /\ phase \in Phases
  /\ result \in {"none", "Ok"} \cup Errors
  /\ {cancelled, mining} \subseteq BOOLEAN
  /\ link \in {"down", "up", "closed"}
  /\ inbound \in Seq(Frames)
  /\ reply \in Frames \cup {NoReply}
  /\ requests \in Seq(Request)
  /\ main \in {"config", "running", "shutdown", "exited"}
  /\ exit_code \in {"none", "SUCCESS", "FAILURE", "killed"}

\* Channels are requested only of a server whose reply this miner can work
\* with, and no standard channel of one that requires extended channels.
RequestsSuitTheServer ==
  requests # << >> =>
    /\ reply.type = "SetupConnection.Success"
    /\ reply.version_offered
    /\ reply.flags \subseteq {"REQUIRES_FIXED_VERSION", "REQUIRES_EXTENDED_CHANNELS"}
    /\ "REQUIRES_EXTENDED_CHANNELS" \in reply.flags =>
         \A i \in DOMAIN requests : requests[i].kind = "extended"

\* The two loops of open_channels share one space of request ids.
RequestIdsUnique ==
  \A i, j \in DOMAIN requests :
    requests[i].request_id = requests[j].request_id => i = j

\* The run got as far as it was meant to: past the handshake, with every
\* configured channel requested.
Served ==
  /\ reply \in SetupSuccess
  /\ acceptable(reply)
  /\ all_requested

\* start() returns Ok only when a shutdown or the server's hanging up ended a
\* run that was under way, and then its mining tasks have been told to stop.
OkEndsARun == result = "Ok" => Served /\ cancelled

\* The exit status tells a run that ended well from one that did not: without
\* Ctrl+C, SUCCESS takes a run that was under way and ended as it should.
ExitStatusIsTrue ==
  /\ exit_code = "SUCCESS" => phase = "dropped" \/ (Served /\ result = "Ok")
  /\ exit_code = "FAILURE" => ~validate(config) \/ result \in Errors

\* What the miner relies on once the binary runs it: channels to split the measured
\* hashrate among, no conversion of a configured string that fails and no CPU usage
\* that the throttle window is too short for.
ConfigIsSafe ==
  config.binary =>
    /\ phase \in {"opening", "loop"} =>
         config.n_standard_channels + config.n_extended_channels > 0
    /\ result \notin {"InvalidConfig", "panic"}

\* The multiplier of a hashrate that the binary advertises "must be greater than 0.0",
\* as validate() says of it.
MultiplierIsPositive ==
  config.binary /\ requests # << >> => config.multiplier = "+"

-----------------------------------------------------------------------------
(* Liveness *)

\* shutdown() makes start() return, wherever it is.
ShutdownReturns ==
  (cancelled /\ phase # "idle") ~> phase \in {"returned", "dropped"}

\* A run does not outlive its connection.
ClosedConnectionEndsTheRun ==
  link = "closed" ~> phase \in {"returned", "dropped"}

\* After a shutdown no mining task runs for ever, even one that a last frame
\* started.
CancellationStopsMining == [](cancelled => <>[](~mining))

\* A protocol violation ends the connection: when start() has returned, the
\* mining it started comes to an end.
ReturnStopsMining == phase = "returned" ~> ~mining

=============================================================================
