----------------------------- MODULE ClientProofs -----------------------------
(***************************************************************************)
(* Theorems about Client, for any configurations and any number of frames  *)
(* under way: its state is well formed, the requests suit the server and   *)
(* are numbered apart, the binary is safe from its configuration, and Ok   *)
(* means that a run was under way and its mining was told to stop.         *)
(***************************************************************************)
EXTENDS Client, TLAPS, SequenceTheorems

-----------------------------------------------------------------------------
(* The requests *)

\* The phases before the first request, and those in which start() is done.
BeforeOpening == {"idle", "measuring", "connecting", "setup_send", "setup_reply"}
Over == {"returned", "dropped"}

total == config.n_standard_channels + config.n_extended_channels

\* The i-th request of all, from 1.
nth_request(i) ==
  [kind |-> IF i <= config.n_standard_channels THEN "standard" ELSE "extended",
   request_id |-> i - 1]

Numbered ==
  /\ requests \in Seq(Request)
  /\ Len(requests) <= total
  /\ \A i \in 1 .. Len(requests) : requests[i] = nth_request(i)

\* What the handshake established, from the time the channels are opened.
Accepted ==
  /\ phase \in BeforeOpening => requests = << >>
  /\ phase \in {"opening", "loop"} \/ requests # << >> =>
       reply \in SetupSuccess /\ acceptable(reply)

RequestInv ==
  /\ config \in Configs
  /\ phase \in Phases
  /\ main = "config" => phase = "idle"
  /\ Numbered
  /\ Accepted

LEMMA ConfigTypes ==
  ASSUME config \in Configs
  PROVE  /\ config.n_standard_channels \in Nat
         /\ config.n_extended_channels \in Nat
         /\ total \in Nat
BY ClientAssumption DEF Config, total

LEMMA RequestInit == Init => RequestInv
<1> SUFFICES ASSUME Init  PROVE RequestInv
  OBVIOUS
<1>1. total \in Nat
  BY ConfigTypes DEF Init
<1> QED
  BY <1>1 DEF Init, RequestInv, Numbered, Accepted, BeforeOpening, Phases

\* The request of either loop is the next of all.
LEMMA NextIsNth ==
  ASSUME RequestInv
  PROVE  /\ next_request = nth_request(Len(requests) + 1)
         /\ next_request \in Request
<1>1. /\ config.n_standard_channels \in Nat
      /\ Len(requests) \in Nat
  BY ConfigTypes, LenProperties DEF RequestInv, Numbered
<1> QED
  BY <1>1 DEF next_request, extended_request, nth_request, Request

LEMMA OpeningKeepsNumbers ==
  ASSUME RequestInv, OpenChannel, requests' # requests
  PROVE  Numbered'
<1>1. requests' = Append(requests, next_request) /\ config' = config /\ ~all_requested
  BY DEF OpenChannel
<1>2. /\ requests \in Seq(Request) /\ next_request \in Request
      /\ next_request = nth_request(Len(requests) + 1)
  BY NextIsNth DEF RequestInv, Numbered
<1>3. /\ requests' \in Seq(Request)
      /\ Len(requests') = Len(requests) + 1
      /\ \A i \in 1 .. Len(requests) : requests'[i] = requests[i]
      /\ requests'[Len(requests) + 1] = next_request
  BY <1>1, <1>2, AppendProperties
<1>4. Len(requests') <= total
  <2>1. Len(requests) <= total /\ Len(requests) # total
    BY <1>1 DEF RequestInv, Numbered, all_requested, total
  <2>2. Len(requests) \in Nat /\ total \in Nat
    BY <1>2, ConfigTypes, LenProperties DEF RequestInv
  <2> QED
    BY <1>3, <2>1, <2>2
<1>5. \A i \in 1 .. Len(requests') : requests'[i] = nth_request(i)
  <2> SUFFICES ASSUME NEW i \in 1 .. Len(requests')  PROVE requests'[i] = nth_request(i)
    OBVIOUS
  <2>1. Len(requests) \in Nat
    BY <1>2, LenProperties
  <2>2. i \in 1 .. Len(requests) \/ i = Len(requests) + 1
    BY <1>3, <2>1
  <2> QED
    BY <1>2, <1>3, <2>2 DEF RequestInv, Numbered
<1>6. total' = total /\ \A i : nth_request(i)' = nth_request(i)
  BY <1>1 DEF total, nth_request
<1> QED
  BY <1>1, <1>3, <1>4, <1>5 DEF Numbered, total, nth_request

LEMMA OthersKeepNumbers ==
  ASSUME RequestInv, UNCHANGED <<config, requests>>
  PROVE  config' \in Configs /\ Numbered'
<1>1. config' = config /\ requests' = requests
  OBVIOUS
<1>2. total' = total /\ \A i : nth_request(i)' = nth_request(i)
  BY <1>1 DEF total, nth_request
<1> QED
  BY <1>1 DEF RequestInv, Numbered, total, nth_request

\* A step after which the requests and the reply are what they were, and start() is
\* where it was, still before the first request, or over.
LEMMA AcceptedStays ==
  ASSUME RequestInv, UNCHANGED <<config, requests, reply>>,
         \/ phase' = phase
         \/ phase \in BeforeOpening /\ phase' \in BeforeOpening
         \/ phase' \in Over
         \/ phase = "opening" /\ phase' = "loop"
  PROVE  Accepted'
<1>1. config' = config /\ requests' = requests /\ reply' = reply
  OBVIOUS
<1>2. acceptable(reply)' <=> acceptable(reply)
  BY <1>1 DEF acceptable
<1>3. ASSUME phase' \in BeforeOpening  PROVE requests' = << >>
  BY <1>1, <1>3 DEF RequestInv, Accepted, BeforeOpening, Over
<1>4. ASSUME phase' \in {"opening", "loop"} \/ requests' # << >>
      PROVE  reply' \in SetupSuccess /\ acceptable(reply)
  BY <1>1, <1>4 DEF RequestInv, Accepted, BeforeOpening, Over
<1> QED
  BY <1>2, <1>3, <1>4 DEF Accepted

\* The steps of RequestInv that keep the requests.
LEMMA QuietStep ==
  ASSUME RequestInv, UNCHANGED <<config, requests, reply>>, main = "config" \/ main' # "config",
         \/ phase' = phase /\ main' = main
         \/ phase' = phase /\ main' # "config"
         \/ /\ main' # "config"
            /\ \/ phase \in BeforeOpening /\ phase' \in BeforeOpening
               \/ phase' \in Over
               \/ phase = "opening" /\ phase' = "loop"
  PROVE  RequestInv'
<1>1. config' \in Configs /\ Numbered'
  BY OthersKeepNumbers
<1>2. Accepted'
  BY AcceptedStays
<1>3. phase' \in Phases /\ (main' = "config" => phase' = "idle")
  BY DEF RequestInv, Phases, BeforeOpening, Over
<1> QED
  BY <1>1, <1>2, <1>3 DEF RequestInv

LEMMA RequestNext == RequestInv /\ [Next]_vars => RequestInv'
<1> SUFFICES ASSUME RequestInv, [Next]_vars  PROVE RequestInv'
  OBVIOUS
<1>m. main = "config" => phase = "idle"
  BY DEF RequestInv
<1>1. CASE ProcessConfig
  BY <1>1, <1>m, QuietStep DEF ProcessConfig, BeforeOpening
<1>2. CASE New
  BY <1>2, <1>m, QuietStep DEF New, Return, BeforeOpening, Over, program
<1>3. CASE Connect
  BY <1>3, <1>m, QuietStep DEF Connect, Return, BeforeOpening, Over, program
<1>4. CASE SendSetupConnection
  <2>1. /\ UNCHANGED <<config, requests, reply, main>> /\ phase = "setup_send"
        /\ phase' \in {"returned", "setup_reply"}
    BY <1>4, Zenon DEF SendSetupConnection, Return, program
  <2> QED
    BY <1>m, <2>1, QuietStep DEF BeforeOpening, Over
<1>5. CASE SetupReply
  <2>1. /\ UNCHANGED <<config, requests, main>> /\ phase = "setup_reply"
        /\ reply' = Head(inbound)
    BY <1>5, Zenon DEF SetupReply, program
  <2>2. \/ reply' \in SetupSuccess /\ acceptable(reply') /\ phase' = "opening"
        \/ phase' = "returned"
    BY <1>5, <2>1, Zenon DEF SetupReply, Return
  <2>3. requests' = << >>
    BY <2>1 DEF RequestInv, Accepted, BeforeOpening
  <2>4. acceptable(reply)' <=> acceptable(reply')
    BY <2>1 DEF acceptable
  <2>5. Accepted'
    BY <2>2, <2>3, <2>4 DEF Accepted, BeforeOpening
  <2>6. config' \in Configs /\ Numbered'
    BY <2>1, OthersKeepNumbers
  <2>7. main' # "config" /\ phase' \in Phases
    BY <1>m, <2>1, <2>2 DEF Phases
  <2> QED
    BY <2>5, <2>6, <2>7 DEF RequestInv
<1>6. CASE NoSetupReply
  BY <1>6, <1>m, QuietStep DEF NoSetupReply, Return, Over, program
<1>7. CASE OpenChannel
  <2>1. UNCHANGED <<config, reply, main>> /\ phase = "opening"
    BY <1>7, Zenon DEF OpenChannel, program
  <2>2. \/ phase' = "returned" /\ requests' = requests
        \/ phase' = phase
    BY <1>7, Zenon DEF OpenChannel, Return
  <2>3. CASE requests' = requests
    BY <1>m, <2>1, <2>2, <2>3, QuietStep DEF Over
  <2>4. CASE requests' # requests
    <3>1. Numbered' /\ config' \in Configs /\ phase' = "opening" /\ main' # "config"
      BY <1>7, <1>m, <2>1, <2>2, <2>4, OpeningKeepsNumbers DEF RequestInv
    <3>2. reply' \in SetupSuccess /\ acceptable(reply)
      BY <2>1 DEF RequestInv, Accepted
    <3>3. acceptable(reply)' <=> acceptable(reply)
      BY <2>1 DEF acceptable
    <3> QED
      BY <3>1, <3>2, <3>3 DEF RequestInv, Accepted, BeforeOpening, Phases
  <2> QED
    BY <2>3, <2>4
<1>8. CASE ChannelsRequested
  BY <1>8, <1>m, QuietStep DEF ChannelsRequested, program
<1>9. CASE LoopCancelled
  <2>1. UNCHANGED <<config, requests, reply, main>> /\ phase = "loop" /\ phase' = "returned"
    BY <1>9, Zenon DEF LoopCancelled, Return, program
  <2> QED
    BY <1>m, <2>1, QuietStep DEF Over
<1>10. CASE LoopFrame
  <2>1. UNCHANGED <<config, requests, reply, main>> /\ phase = "loop"
    BY <1>10, Zenon DEF LoopFrame, program
  <2>2. phase' = phase \/ phase' = "returned"
    BY <1>10, Zenon DEF LoopFrame, Return
  <2> QED
    BY <1>m, <2>1, <2>2, QuietStep DEF Over
<1>11. CASE LoopClosed
  <2>1. UNCHANGED <<config, requests, reply, main>> /\ phase = "loop" /\ phase' = "returned"
    BY <1>11, Zenon DEF LoopClosed, Return, program
  <2> QED
    BY <1>m, <2>1, QuietStep DEF Over
<1>12. CASE StartReturned \/ CtrlC \/ CtrlCInNew \/ MainShutdown
  <2>1. UNCHANGED <<config, requests, reply>> /\ main' \in {"shutdown", "exited"}
    BY <1>12, Zenon DEF StartReturned, CtrlC, CtrlCInNew, MainShutdown
  <2>2. phase' = phase \/ phase' = "dropped"
    BY <1>12, Zenon DEF StartReturned, CtrlC, CtrlCInNew, MainShutdown
  <2> QED
    BY <2>1, <2>2, QuietStep DEF Over
<1>13. CASE \/ TasksStop \/ Shutdown \/ LinkCloses \/ Exited \/ UNCHANGED vars
            \/ \E frame \in Frames : Receive(frame)
  <2>1. UNCHANGED <<config, requests, reply, phase, main>>
    BY <1>13, Zenon DEF TasksStop, Shutdown, LinkCloses, Receive, Exited, vars, program
  <2> QED
    BY <2>1, QuietStep
<1> QED
  BY <1>1, <1>2, <1>3, <1>4, <1>5, <1>6, <1>7, <1>8, <1>9, <1>10, <1>11, <1>12, <1>13
  DEF Next, start

LEMMA RequestsAlways == Spec => []RequestInv
BY RequestInit, RequestNext, PTL DEF Spec

\* However many channels of each kind are configured, no two requests share an id.
THEOREM RequestIdsAreUnique == Spec => []RequestIdsUnique
<1>1. RequestInv => RequestIdsUnique
  <2> SUFFICES ASSUME RequestInv, NEW i \in DOMAIN requests, NEW j \in DOMAIN requests,
                      requests[i].request_id = requests[j].request_id
               PROVE  i = j
    BY DEF RequestIdsUnique
  <2>1. i \in 1 .. Len(requests) /\ j \in 1 .. Len(requests)
    BY LenProperties DEF RequestInv, Numbered
  <2>2. i \in Int /\ j \in Int
    BY <2>1
  <2>3. requests[i] = nth_request(i) /\ requests[j] = nth_request(j)
    BY <2>1, Zenon DEF RequestInv, Numbered
  <2>4. nth_request(i).request_id = i - 1 /\ nth_request(j).request_id = j - 1
    BY DEF nth_request
  <2>5. i - 1 = j - 1
    BY <2>3, <2>4, Zenon
  <2> QED
    BY <2>2, <2>5
<1> QED
  BY <1>1, RequestsAlways, PTL

\* Whatever the server replies, channels are requested only after a reply this miner
\* can work with, and only extended ones of a server that requires them.
THEOREM RequestsAlwaysSuit == Spec => []RequestsSuitTheServer
<1>1. RequestInv => RequestsSuitTheServer
  <2> SUFFICES ASSUME RequestInv, requests # << >>
               PROVE  /\ reply.type = "SetupConnection.Success"
                      /\ reply.version_offered
                      /\ reply.flags \subseteq {"REQUIRES_FIXED_VERSION",
                                               "REQUIRES_EXTENDED_CHANNELS"}
                      /\ "REQUIRES_EXTENDED_CHANNELS" \in reply.flags =>
                           \A i \in DOMAIN requests : requests[i].kind = "extended"
    BY DEF RequestsSuitTheServer
  <2>1. reply \in SetupSuccess /\ acceptable(reply)
    BY DEF RequestInv, Accepted
  <2>2. reply.type = "SetupConnection.Success" /\ reply.flags \subseteq ServerFlags
    BY <2>1 DEF SetupSuccess
  <2>3. /\ reply.version_offered
        /\ "unknown" \notin reply.flags
        /\ "REQUIRES_EXTENDED_CHANNELS" \in reply.flags => config.n_standard_channels = 0
    BY <2>1, Zenon DEF acceptable
  <2>4. ASSUME config.n_standard_channels = 0, NEW i \in DOMAIN requests
        PROVE  requests[i].kind = "extended"
    <3>1. i \in 1 .. Len(requests) /\ requests[i] = nth_request(i)
      BY LenProperties DEF RequestInv, Numbered
    <3> QED
      BY <2>4, <3>1 DEF nth_request
  <2>5. reply.flags \subseteq {"REQUIRES_FIXED_VERSION", "REQUIRES_EXTENDED_CHANNELS"}
    BY <2>2, <2>3 DEF ServerFlags
  <2> QED
    BY <2>2, <2>3, <2>4, <2>5, Zenon
<1> QED
  BY <1>1, RequestsAlways, PTL

-----------------------------------------------------------------------------
(* The outcome *)

Active == {"measuring", "connecting", "setup_send", "setup_reply", "opening", "loop"}

\* start() has a result when it is over and not before; main has an exit status when
\* it is through with start(), or never called it.
OutcomeInv ==
  /\ phase = "loop" => all_requested
  /\ result = "none" \/ phase \in Over
  /\ phase = "returned" => result \in {"Ok"} \cup Errors
  /\ result = "Ok" => Served /\ cancelled
  /\ phase \in Active => main \notin {"shutdown", "exited"}
  /\ exit_code # "none" => main \in {"shutdown", "exited"}
  /\ exit_code = "SUCCESS" => phase = "dropped" \/ (Served /\ result = "Ok")
  /\ exit_code = "FAILURE" => ~validate(config) \/ result \in Errors

\* What a step of start() makes of the phase and the result.
Goes == phase' \in Active /\ result' = result /\ (phase' = "loop" => all_requested')
Fails == phase' = "returned" /\ result' \in Errors
Succeeds ==
  /\ phase = "loop" /\ phase' = "returned" /\ result' = "Ok"
  /\ cancelled'
  /\ UNCHANGED <<reply, requests>>

LEMMA SameRequests ==
  ASSUME UNCHANGED <<config, reply, requests>>
  PROVE  /\ all_requested' <=> all_requested
         /\ Served' <=> Served
BY Zenon DEF all_requested, Served, acceptable

LEMMA StartSteps ==
  ASSUME start, OutcomeInv
  PROVE  /\ UNCHANGED <<config, main, exit_code>>
         /\ phase \in Active
         /\ Goes \/ Fails \/ Succeeds
<1>1. UNCHANGED <<config, main, exit_code>>
  BY Zenon
  DEF start, New, Connect, SendSetupConnection, SetupReply, NoSetupReply, OpenChannel,
      ChannelsRequested, LoopCancelled, LoopFrame, LoopClosed, program
<1>2. CASE New
  BY <1>1, <1>2 DEF New, Return, Active, Goes, Fails, Errors
<1>3. CASE Connect
  BY <1>1, <1>3 DEF Connect, Return, Active, Goes, Fails, Errors
<1>4. CASE SendSetupConnection
  <2>1. /\ phase = "setup_send"
        /\ \/ phase' = "setup_reply" /\ result' = result
           \/ /\ phase' = "returned"
              /\ result' \in {"InvalidConfig", "panic", "ChannelErrorSender"}
    <3>1. \/ Return("InvalidConfig") \/ Return("panic") \/ Return("ChannelErrorSender")
          \/ phase' = "setup_reply" /\ result' = result
      BY <1>4, Zenon DEF SendSetupConnection
    <3>2. phase = "setup_send"
      BY <1>4, Zenon DEF SendSetupConnection
    <3> QED
      BY <3>1, <3>2 DEF Return
  <2> QED
    BY <1>1, <2>1 DEF Active, Goes, Fails, Errors
<1>5. CASE SetupReply
  <2>1. phase = "setup_reply"
    BY <1>5, Zenon DEF SetupReply
  <2>2. \/ phase' = "opening" /\ result' = result
        \/ phase' = "returned" /\ \E frame : result' = setup_error(frame)
    BY <1>5, Zenon DEF SetupReply, Return
  <2>3. \A frame : setup_error(frame) \in {"SetupConnectionMismatch",
                     "SetupConnectionFailed", "Parser", "UnexpectedMessage"}
    BY DEF setup_error
  <2> QED
    BY <1>1, <2>1, <2>2, <2>3 DEF Active, Goes, Fails, Errors
<1>6. CASE NoSetupReply
  BY <1>1, <1>6 DEF NoSetupReply, Return, Active, Fails, Errors
<1>7. CASE OpenChannel
  <2>1. phase = "opening"
    BY <1>7, Zenon DEF OpenChannel
  <2>2. Return("panic") \/ Return("ChannelErrorSender") \/ UNCHANGED <<phase, result>>
    BY <1>7, Zenon DEF OpenChannel
  <2> QED
    BY <1>1, <2>1, <2>2 DEF Return, Active, Goes, Fails, Errors
<1>8. CASE ChannelsRequested
  <2>1. /\ phase = "opening" /\ phase' = "loop" /\ result' = result /\ all_requested
        /\ UNCHANGED <<config, reply, requests>>
    BY <1>8, Zenon DEF ChannelsRequested
  <2> QED
    BY <1>1, <2>1, SameRequests DEF Active, Goes
<1>9. CASE LoopCancelled
  <2>1. Succeeds
    BY <1>9, Zenon DEF LoopCancelled, Return, Succeeds
  <2> QED
    BY <1>1, <2>1 DEF Active, Succeeds
<1>10. CASE LoopFrame
  <2>1. phase = "loop" /\ UNCHANGED <<reply, requests>>
    BY <1>10, Zenon DEF LoopFrame
  <2>2. \/ UNCHANGED <<phase, result>>
        \/ phase' = "returned" /\ \E frame : result' \in frame_errors(frame)
    BY <1>10, Zenon DEF LoopFrame, Return
  <2>3. \A frame : frame_errors(frame) \subseteq {"PoisonLock", "StandardJobsOnly",
                     "UnexpectedMessage", "Parser"}
    <3> SUFFICES ASSUME NEW frame
                 PROVE  frame_errors(frame) \subseteq {"PoisonLock", "StandardJobsOnly",
                                                      "UnexpectedMessage", "Parser"}
      OBVIOUS
    <3> QED
      BY DEF frame_errors
  <2>4. CASE UNCHANGED <<phase, result>>
    BY <1>1, <2>1, <2>4, SameRequests DEF OutcomeInv, Active, Goes
  <2> QED
    BY <1>1, <2>1, <2>2, <2>3, <2>4 DEF Active, Fails, Errors
<1>11. CASE LoopClosed
  <2>1. Succeeds
    BY <1>11, Zenon DEF LoopClosed, Return, Succeeds
  <2> QED
    BY <1>1, <2>1 DEF Active, Succeeds
<1> QED
  BY <1>2, <1>3, <1>4, <1>5, <1>6, <1>7, <1>8, <1>9, <1>10, <1>11 DEF start

LEMMA OutcomeInit == Init => OutcomeInv
BY DEF Init, OutcomeInv, Active, Over

\* The token is never taken back.
LEMMA CancelledStays == [Next]_vars /\ cancelled => cancelled'
BY Zenon
DEF Next, start, New, Connect, SendSetupConnection, SetupReply, NoSetupReply, OpenChannel,
    ChannelsRequested, LoopCancelled, LoopFrame, LoopClosed, ProcessConfig, StartReturned,
    CtrlC, CtrlCInNew, MainShutdown, Shutdown, TasksStop, LinkCloses, Receive, Exited, vars

\* Everything of OutcomeInv but the token, in terms of the next state.
LEMMA OutcomeOf ==
  ASSUME phase' = "loop" => all_requested',
         result' = "none" \/ phase' \in Over,
         phase' = "returned" => result' \in {"Ok"} \cup Errors,
         result' = "Ok" => Served' /\ cancelled',
         phase' \in Active => main' \notin {"shutdown", "exited"},
         exit_code' # "none" => main' \in {"shutdown", "exited"},
         exit_code' = "SUCCESS" => phase' = "dropped" \/ (Served' /\ result' = "Ok"),
         exit_code' = "FAILURE" => ~validate(config') \/ result' \in Errors
  PROVE  OutcomeInv'
<1>1. validate(config)' <=> validate(config')
  BY Zenon DEF validate
<1> QED
  BY <1>1, Zenon DEF OutcomeInv, Active, Over, Errors

LEMMA OutcomeOfStart == RequestInv /\ OutcomeInv /\ start /\ [Next]_vars => OutcomeInv'
<1> SUFFICES ASSUME RequestInv, OutcomeInv, start, [Next]_vars  PROVE OutcomeInv'
  OBVIOUS
<1>1. /\ UNCHANGED <<config, main, exit_code>>
      /\ phase \in Active
      /\ Goes \/ Fails \/ Succeeds
  BY StartSteps
<1>2. main' \notin {"shutdown", "exited"}
  BY <1>1 DEF OutcomeInv
<1>3. exit_code' = "none"
  BY <1>1 DEF OutcomeInv
<1>4. result = "none"
  BY <1>1 DEF OutcomeInv, Active, Over
<1>5. CASE Goes
  <2>1. phase' \in Active /\ result' = "none" /\ (phase' = "loop" => all_requested')
    BY <1>4, <1>5 DEF Goes
  <2> QED
    BY <1>2, <1>3, <2>1, OutcomeOf DEF Active
<1>6. CASE Fails
  <2>1. phase' = "returned" /\ result' \in Errors /\ result' # "Ok"
    BY <1>6 DEF Fails, Errors
  <2> QED
    BY <1>2, <1>3, <2>1, OutcomeOf DEF Over
<1>7. CASE Succeeds
  <2>1. phase = "loop" /\ phase' = "returned" /\ result' = "Ok"
        /\ UNCHANGED <<reply, requests>>
    BY <1>7, Zenon DEF Succeeds
  <2>2. cancelled'
    BY <1>7, Zenon DEF Succeeds
  <2>3. Served
    BY <2>1, Zenon DEF Served, OutcomeInv, RequestInv, Accepted
  <2>4. Served'
    BY <1>1, <2>1, <2>3, SameRequests, Zenon
  <2>5. phase' # "loop" /\ phase' \in Over
    BY <2>1 DEF Over
  <2> QED
    BY <1>2, <1>3, <2>1, <2>2, <2>4, <2>5, OutcomeOf, Zenon
<1> QED
  BY <1>1, <1>5, <1>6, <1>7

LEMMA OutcomeNext == RequestInv /\ OutcomeInv /\ [Next]_vars => OutcomeInv'
<1> SUFFICES ASSUME RequestInv, OutcomeInv, [Next]_vars  PROVE OutcomeInv'
  OBVIOUS
<1>1. CASE start
  BY <1>1, OutcomeOfStart
<1>2. CASE ~start
  <2>1. UNCHANGED <<config, reply, requests, result>>
    BY <1>2, Zenon
    DEF Next, ProcessConfig, StartReturned, CtrlC, CtrlCInNew, MainShutdown, Shutdown,
        TasksStop, LinkCloses, Receive, Exited, vars
  <2>2. /\ all_requested' <=> all_requested
        /\ Served' <=> Served
        /\ validate(config') <=> validate(config)
    BY <2>1, SameRequests, Zenon
  <2>3. result' = "Ok" => Served' /\ cancelled'
    BY <2>1, <2>2, CancelledStays, Zenon DEF OutcomeInv
  <2>4. CASE ProcessConfig
    <3>1. main = "config" /\ phase = "idle"
      BY <2>4, Zenon DEF ProcessConfig, RequestInv
    <3>2. exit_code = "none" /\ result = "none"
      BY <3>1 DEF OutcomeInv, Over
    <3>3. \/ main' = "exited" /\ exit_code' = "FAILURE" /\ phase' = phase /\ ~validate(config)
          \/ main' = "running" /\ phase' = "measuring" /\ exit_code' = exit_code
      BY <2>4, Zenon DEF ProcessConfig
    <3>4. CASE main' = "exited" /\ exit_code' = "FAILURE" /\ phase' = phase
               /\ ~validate(config')
      BY <2>1, <2>3, <3>1, <3>2, <3>4, OutcomeOf DEF Active
    <3>5. CASE main' = "running" /\ phase' = "measuring" /\ exit_code' = exit_code
      BY <2>1, <2>3, <3>2, <3>5, OutcomeOf DEF Active
    <3> QED
      BY <2>2, <3>3, <3>4, <3>5, Zenon
  <2>5. CASE StartReturned
    <3>1. /\ main = "running" /\ phase = "returned" /\ phase' = phase /\ main' = "shutdown"
          /\ exit_code' = IF result = "Ok" THEN "SUCCESS" ELSE "FAILURE"
      BY <2>5, Zenon DEF StartReturned
    <3>2. result' \in {"Ok"} \cup Errors /\ (result' = "Ok" => Served')
      BY <2>1, <2>3, <3>1, Zenon DEF OutcomeInv
    <3>3. /\ phase' \in Over /\ phase' \notin Active /\ phase' # "loop"
      BY <3>1 DEF Over, Active
    <3>4. /\ exit_code' = "SUCCESS" => result' = "Ok"
          /\ exit_code' = "FAILURE" => result' \in Errors
      BY <2>1, <3>1, <3>2
    <3>5. main' \in {"shutdown", "exited"}
      BY <3>1
    <3> QED
      BY <2>3, <3>2, <3>3, <3>4, <3>5, OutcomeOf, Zenon
  <2>6. CASE CtrlC \/ CtrlCInNew
    <3>1. /\ phase' = "dropped" /\ main' \in {"shutdown", "exited"}
          /\ exit_code' \in {"SUCCESS", "killed"}
      <4>1. /\ phase' = "dropped"
            /\ main' = "shutdown" \/ main' = "exited"
            /\ exit_code' = "SUCCESS" \/ exit_code' = "killed"
        BY <2>6, Zenon DEF CtrlC, CtrlCInNew
      <4> QED
        BY <4>1
    <3>2. /\ phase' # "loop" /\ phase' \in Over /\ phase' # "returned"
          /\ phase' \notin Active /\ exit_code' # "FAILURE"
      BY <3>1 DEF Over, Active
    <3> QED
      BY <2>3, <3>1, <3>2, OutcomeOf, Zenon
  <2>7. CASE MainShutdown
    <3>1. main = "shutdown" /\ main' = "exited" /\ phase' = phase /\ exit_code' = exit_code
      BY <2>7, Zenon DEF MainShutdown
    <3>2. phase' \notin Active /\ phase' # "loop"
      BY <3>1 DEF OutcomeInv, Active
    <3>3. main' \in {"shutdown", "exited"}
      BY <3>1
    <3> QED
      BY <2>1, <2>2, <2>3, <3>1, <3>2, <3>3, OutcomeOf, Zenon DEF OutcomeInv
  <2>8. CASE UNCHANGED <<phase, main, exit_code>>
    BY <2>1, <2>2, <2>3, <2>8, OutcomeOf, Zenon DEF OutcomeInv
  <2>9. ASSUME ~ProcessConfig, ~StartReturned, ~CtrlC, ~CtrlCInNew, ~MainShutdown
        PROVE  UNCHANGED <<phase, main, exit_code>>
    BY <1>2, <2>9, Zenon
    DEF Next, Shutdown, TasksStop, LinkCloses, Receive, Exited, vars, program
  <2> QED
    BY <2>4, <2>5, <2>6, <2>7, <2>8, <2>9
<1> QED
  BY <1>1, <1>2

LEMMA OutcomeAlways == Spec => []OutcomeInv
BY RequestsAlways, OutcomeInit, OutcomeNext, PTL DEF Spec

\* For any configuration and server: when start() has returned Ok, the handshake had
\* succeeded, every channel had been requested, and the token is cancelled.
THEOREM OkAlwaysEndsARun == Spec => []OkEndsARun
<1>1. OutcomeInv => OkEndsARun
  BY Zenon DEF OutcomeInv, OkEndsARun
<1> QED
  BY <1>1, OutcomeAlways, PTL

\* For any configuration and server: SUCCESS without Ctrl+C takes such a run, and
\* FAILURE an invalid configuration or an error.
THEOREM ExitStatusIsAlwaysTrue == Spec => []ExitStatusIsTrue
<1>1. OutcomeInv => ExitStatusIsTrue
  BY Zenon DEF OutcomeInv, ExitStatusIsTrue
<1> QED
  BY <1>1, OutcomeAlways, PTL

-----------------------------------------------------------------------------
(* The configuration *)

\* The binary starts nothing with a configuration that validate() refuses, and no
\* other can make start() fail for its configuration.
Unsafe == {"InvalidConfig", "panic"}
SafeInv ==
  /\ main = "running" => phase # "idle"
  /\ config.binary /\ phase # "idle" => validate(config)
  /\ result \in Unsafe => ~validate(config)

LEMMA SafeInit == Init => SafeInv
BY DEF Init, SafeInv, Unsafe

\* The results start() returns, by what they say of the configuration.
LEMMA StartResults ==
  ASSUME start
  PROVE  result' \in Unsafe => result' = result \/ ~validate(config)
<1>1. CASE New
  <2>1. result' = result \/ (config.cpu_usage_percent = "above" /\ result' = "panic")
    BY <1>1, Zenon DEF New, Return
  <2>2. config.cpu_usage_percent = "above" => ~validate(config)
    BY DEF validate
  <2> QED
    BY <2>1, <2>2
<1>2. CASE SendSetupConnection
  <2>1. \/ result' = result \/ result' = "ChannelErrorSender"
        \/ ~config.has_port \/ ~config.device_fits
    BY <1>2, Zenon DEF SendSetupConnection, Return
  <2>2. ~config.has_port \/ ~config.device_fits => ~validate(config)
    BY Zenon DEF validate
  <2> QED
    BY <2>1, <2>2 DEF Unsafe
<1>3. CASE OpenChannel
  <2>1. \/ result' = result \/ result' = "ChannelErrorSender" \/ ~config.identity_fits
    BY <1>3, Zenon DEF OpenChannel, Return
  <2>2. ~config.identity_fits => ~validate(config)
    BY Zenon DEF validate
  <2> QED
    BY <2>1, <2>2 DEF Unsafe
<1>4. CASE Connect \/ NoSetupReply \/ ChannelsRequested \/ LoopCancelled \/ LoopClosed
  <2>1. \/ result' = result \/ result' = "connect_failed" \/ result' = "Ok"
        \/ result' = "ChannelErrorReceiver"
    BY <1>4, Zenon
    DEF Connect, NoSetupReply, ChannelsRequested, LoopCancelled, LoopClosed, Return
  <2> QED
    BY <2>1 DEF Unsafe
<1>5. CASE SetupReply
  <2>1. result' = result \/ \E frame : result' = setup_error(frame)
    BY <1>5, Zenon DEF SetupReply, Return
  <2>2. \A frame : setup_error(frame) \notin Unsafe
    BY DEF setup_error, Unsafe
  <2> QED
    BY <2>1, <2>2
<1>6. CASE LoopFrame
  <2>1. result' = result \/ \E frame : result' \in frame_errors(frame)
    BY <1>6, Zenon DEF LoopFrame, Return
  <2>2. ASSUME NEW frame  PROVE frame_errors(frame) \cap Unsafe = {}
    BY DEF frame_errors, Unsafe
  <2> QED
    BY <2>1, <2>2
<1> QED
  BY <1>1, <1>2, <1>3, <1>4, <1>5, <1>6 DEF start

LEMMA SafeNext == RequestInv /\ OutcomeInv /\ SafeInv /\ [Next]_vars => SafeInv'
<1> SUFFICES ASSUME RequestInv, OutcomeInv, SafeInv, [Next]_vars  PROVE SafeInv'
  OBVIOUS
<1>1. config' = config
  BY Zenon
  DEF Next, start, New, Connect, SendSetupConnection, SetupReply, NoSetupReply, OpenChannel,
      ChannelsRequested, LoopCancelled, LoopFrame, LoopClosed, ProcessConfig, StartReturned,
      CtrlC, CtrlCInNew, MainShutdown, Shutdown, TasksStop, LinkCloses, Receive, Exited, vars
<1>2. validate(config)' <=> validate(config)
  BY <1>1, Zenon DEF validate
<1>3. result' \in Unsafe => ~validate(config)
  <2>1. CASE start
    BY <2>1, StartResults, Zenon DEF SafeInv
  <2>2. CASE ~start
    <3>1. result' = result
      BY <2>2, Zenon
      DEF Next, ProcessConfig, StartReturned, CtrlC, CtrlCInNew, MainShutdown, Shutdown,
          TasksStop, LinkCloses, Receive, Exited, vars
    <3> QED
      BY <3>1, Zenon DEF SafeInv
  <2> QED
    BY <2>1, <2>2
<1>4. config.binary /\ phase' # "idle" => validate(config)
  <2>1. CASE phase # "idle"
    BY <2>1, Zenon DEF SafeInv
  <2>2. CASE phase = "idle"
    <3>1. ~start
      BY <2>2, StartSteps DEF Active
    <3>2. CASE ProcessConfig
      BY <2>2, <3>2, Zenon DEF ProcessConfig
    <3>3. CASE CtrlC \/ CtrlCInNew
      <4>1. CASE main = "running"
        BY <4>1, <3>3, <2>2, Zenon DEF SafeInv, OutcomeInv, CtrlC, CtrlCInNew
      <4> QED
        BY <4>1, <3>3, Zenon DEF CtrlC, CtrlCInNew
    <3>4. CASE ~ProcessConfig /\ ~CtrlC /\ ~CtrlCInNew
      <4>1. phase' = phase
        BY <3>1, <3>4, Zenon
        DEF Next, StartReturned, MainShutdown, Shutdown, TasksStop, LinkCloses, Receive,
            Exited, vars
      <4> QED
        BY <2>2, <4>1
    <3> QED
      BY <3>2, <3>3, <3>4
  <2> QED
    BY <2>1, <2>2
<1>5. main' = "running" => phase' # "idle"
  <2>1. CASE start
    BY <2>1, StartSteps DEF Active, Goes, Fails, Succeeds
  <2>2. CASE ProcessConfig
    <3>1. main' = "exited" \/ phase' = "measuring"
      BY <2>2, Zenon DEF ProcessConfig
    <3> QED
      BY <3>1
  <2>3. CASE StartReturned \/ CtrlC \/ CtrlCInNew \/ MainShutdown
    <3>1. main' = "exited" \/ main' = "shutdown"
      BY <2>3, Zenon DEF StartReturned, CtrlC, CtrlCInNew, MainShutdown
    <3> QED
      BY <3>1
  <2>4. CASE ~start /\ ~ProcessConfig
             /\ ~(StartReturned \/ CtrlC \/ CtrlCInNew \/ MainShutdown)
    <3>1. phase' = phase /\ main' = main
      BY <2>4, Zenon
      DEF Next, Shutdown, TasksStop, LinkCloses, Receive, Exited, vars, program
    <3> QED
      BY <3>1, Zenon DEF SafeInv
  <2> QED
    BY <2>1, <2>2, <2>3, <2>4
<1> QED
  BY <1>1, <1>2, <1>3, <1>4, <1>5, Zenon DEF SafeInv

\* Whatever the configuration: once the binary runs it, there are channels to share the
\* hashrate among, and nothing in it panics.
THEOREM ConfigIsAlwaysSafe == Spec => []ConfigIsSafe
<1>1. Spec => []SafeInv
  BY RequestsAlways, OutcomeAlways, SafeInit, SafeNext, PTL DEF Spec
<1>2. RequestInv /\ OutcomeInv /\ SafeInv => ConfigIsSafe
  <2> SUFFICES ASSUME RequestInv, OutcomeInv, SafeInv, config.binary
               PROVE  /\ phase \in {"opening", "loop"} =>
                           config.n_standard_channels + config.n_extended_channels > 0
                      /\ result \notin Unsafe
    BY Zenon DEF ConfigIsSafe, Unsafe
  <2>1. phase # "idle" => validate(config)
    BY Zenon DEF SafeInv
  <2>2. ASSUME validate(config)
        PROVE  config.n_standard_channels + config.n_extended_channels > 0
    <3>1. config.n_standard_channels \in Nat /\ config.n_extended_channels \in Nat
      BY ConfigTypes DEF RequestInv
    <3>2. config.n_standard_channels > 0 \/ config.n_extended_channels > 0
      BY <2>2, Zenon DEF validate
    <3> QED
      BY <3>1, <3>2
  <2>3. result \notin Unsafe
    <3>1. CASE phase = "idle"
      BY <3>1 DEF OutcomeInv, Over, Unsafe
    <3>2. CASE phase # "idle"
      BY <2>1, <3>2, Zenon DEF SafeInv
    <3> QED
      BY <3>1, <3>2
  <2>4. phase \in {"opening", "loop"} => phase # "idle"
    OBVIOUS
  <2> QED
    BY <2>1, <2>2, <2>3, <2>4, Zenon
<1> QED
  BY <1>1, <1>2, RequestsAlways, OutcomeAlways, PTL

-----------------------------------------------------------------------------
(* The state is well formed *)

\* What TypeOK says of the connection and the tasks.
ConversationOK ==
  /\ cancelled \in BOOLEAN
  /\ mining \in BOOLEAN
  /\ link \in {"down", "up", "closed"}
  /\ inbound \in Seq(Frames)
  /\ reply \in Frames \cup {NoReply}

\* What it says of start() and the program around it.
ProgramOK ==
  /\ result \in {"none", "Ok"} \cup Errors
  /\ main \in {"config", "running", "shutdown", "exited"}
  /\ exit_code \in {"none", "SUCCESS", "FAILURE", "killed"}

\* Only a frame of the server is added to those that wait, and one is taken from
\* their head.
LEMMA FramesWaiting ==
  ASSUME [Next]_vars
  PROVE  \/ inbound' = inbound
         \/ \E frame \in Frames : inbound' = Append(inbound, frame)
         \/ inbound # << >> /\ inbound' = Tail(inbound)
<1>1. CASE \E frame \in Frames : Receive(frame)
  BY <1>1, Zenon DEF Receive
<1>2. CASE SetupReply
  BY <1>2, Zenon DEF SetupReply
<1>3. CASE LoopFrame
  BY <1>3, Zenon DEF LoopFrame
<1>4. ASSUME ~SetupReply, ~LoopFrame, ~\E frame \in Frames : Receive(frame)
      PROVE  inbound' = inbound
  BY <1>4, Zenon
  DEF Next, start, New, Connect, SendSetupConnection, NoSetupReply, OpenChannel,
      ChannelsRequested, LoopCancelled, LoopClosed, ProcessConfig, StartReturned, CtrlC,
      CtrlCInNew, MainShutdown, Shutdown, TasksStop, LinkCloses, Exited, vars
<1> QED
  BY <1>1, <1>2, <1>3, <1>4, Zenon

LEMMA LinkAndReply ==
  ASSUME [Next]_vars
  PROVE  /\ \/ link' = link \/ link' = "up" \/ link' = "closed"
         /\ \/ reply' = reply
            \/ inbound # << >> /\ reply' = Head(inbound)
         /\ \/ cancelled' = cancelled \/ cancelled' = TRUE
         /\ \/ mining' = mining \/ mining' = FALSE
            \/ \E frame : mining' = (mining \/ frame # Quiet)
<1>1. \/ link' = link \/ link' = "up" \/ link' = "closed"
  BY Zenon
  DEF Next, start, New, Connect, SendSetupConnection, SetupReply, NoSetupReply, OpenChannel,
      ChannelsRequested, LoopCancelled, LoopFrame, LoopClosed, ProcessConfig, StartReturned,
      CtrlC, CtrlCInNew, MainShutdown, Shutdown, TasksStop, LinkCloses, Receive, Exited, vars
<1>2. reply' = reply \/ (inbound # << >> /\ reply' = Head(inbound))
  BY Zenon
  DEF Next, start, New, Connect, SendSetupConnection, SetupReply, NoSetupReply, OpenChannel,
      ChannelsRequested, LoopCancelled, LoopFrame, LoopClosed, ProcessConfig, StartReturned,
      CtrlC, CtrlCInNew, MainShutdown, Shutdown, TasksStop, LinkCloses, Receive, Exited, vars
<1>3. cancelled' = cancelled \/ cancelled' = TRUE
  BY Zenon
  DEF Next, start, New, Connect, SendSetupConnection, SetupReply, NoSetupReply, OpenChannel,
      ChannelsRequested, LoopCancelled, LoopFrame, LoopClosed, ProcessConfig, StartReturned,
      CtrlC, CtrlCInNew, MainShutdown, Shutdown, TasksStop, LinkCloses, Receive, Exited, vars
<1>4. \/ mining' = mining \/ mining' = FALSE
      \/ \E frame : mining' = (mining \/ frame # Quiet)
  <2>1. CASE LoopFrame
    BY <2>1, Zenon DEF LoopFrame
  <2>2. CASE TasksStop
    BY <2>2, Zenon DEF TasksStop
  <2>3. ASSUME ~LoopFrame, ~TasksStop  PROVE mining' = mining
    BY <2>3, Zenon
    DEF Next, start, New, Connect, SendSetupConnection, SetupReply, NoSetupReply, OpenChannel,
        ChannelsRequested, LoopCancelled, LoopClosed, ProcessConfig, StartReturned, CtrlC,
        CtrlCInNew, MainShutdown, Shutdown, LinkCloses, Receive, Exited, vars
  <2> QED
    BY <2>1, <2>2, <2>3, Zenon
<1> QED
  BY <1>1, <1>2, <1>3, <1>4, Zenon

LEMMA ConversationInit == Init => ConversationOK
<1> SUFFICES ASSUME Init  PROVE ConversationOK
  OBVIOUS
<1>1. << >> \in Seq(Frames)
  <2> HIDE DEF Frames
  <2> QED
    OBVIOUS
<1>2. cancelled \in BOOLEAN /\ mining \in BOOLEAN /\ link \in {"down", "up", "closed"}
  BY DEF Init
<1> QED
  BY <1>1, <1>2, Zenon DEF Init, ConversationOK

LEMMA ConversationNext == ConversationOK /\ [Next]_vars => ConversationOK'
<1> SUFFICES ASSUME ConversationOK, [Next]_vars  PROVE ConversationOK'
  OBVIOUS
<1>1. inbound \in Seq(Frames)
  BY DEF ConversationOK
<1>2. inbound' \in Seq(Frames)
  <2>1. ASSUME NEW frame \in Frames  PROVE Append(inbound, frame) \in Seq(Frames)
    BY <1>1, AppendProperties
  <2>2. ASSUME inbound # << >>  PROVE Tail(inbound) \in Seq(Frames)
    BY <1>1, <2>2, HeadTailProperties
  <2> QED
    BY <1>1, <2>1, <2>2, FramesWaiting, Zenon
<1>3. inbound # << >> => Head(inbound) \in Frames
  BY <1>1, HeadTailProperties
<1>4. reply' \in Frames \cup {NoReply}
  <2>1. reply' = reply \/ (inbound # << >> /\ reply' = Head(inbound))
    BY LinkAndReply, Zenon
  <2>2. reply \in Frames \cup {NoReply}
    BY DEF ConversationOK
  <2> HIDE DEF Frames, NoReply
  <2> QED
    BY <1>3, <2>1, <2>2
<1>5. link' \in {"down", "up", "closed"}
  <2>1. link' = link \/ link' = "up" \/ link' = "closed"
    BY LinkAndReply, Zenon
  <2> QED
    BY <2>1 DEF ConversationOK
<1>6. cancelled' \in BOOLEAN
  <2>1. cancelled' = cancelled \/ cancelled' = TRUE
    BY LinkAndReply, Zenon
  <2> QED
    BY <2>1, Zenon DEF ConversationOK
<1>7. mining' \in BOOLEAN
  <2>1. \/ mining' = mining \/ mining' = FALSE
        \/ \E frame : mining' = (mining \/ frame # Quiet)
    BY LinkAndReply, Zenon
  <2>2. ASSUME NEW frame  PROVE (mining \/ frame # Quiet) \in BOOLEAN
    OBVIOUS
  <2> QED
    BY <2>1, <2>2, Zenon DEF ConversationOK
<1> QED
  BY <1>2, <1>4, <1>5, <1>6, <1>7, Zenon DEF ConversationOK

LEMMA ProgramInit == Init => ProgramOK
BY DEF Init, ProgramOK

LEMMA ProgramNext == OutcomeInv /\ ProgramOK /\ [Next]_vars => ProgramOK'
<1> SUFFICES ASSUME OutcomeInv, ProgramOK, [Next]_vars  PROVE ProgramOK'
  OBVIOUS
<1>1. CASE start
  <2>1. UNCHANGED <<main, exit_code>> /\ (Goes \/ Fails \/ Succeeds)
    BY <1>1, StartSteps
  <2>2. result' = result \/ result' \in Errors \/ result' = "Ok"
    BY <2>1, Zenon DEF Goes, Fails, Succeeds
  <2> QED
    BY <2>1, <2>2 DEF ProgramOK
<1>2. CASE ~start
  <2>1. result' = result
    BY <1>2, Zenon
    DEF Next, ProcessConfig, StartReturned, CtrlC, CtrlCInNew, MainShutdown, Shutdown,
        TasksStop, LinkCloses, Receive, Exited, vars
  <2>2. \/ main' = main \/ main' = "running" \/ main' = "shutdown" \/ main' = "exited"
    BY <1>2, Zenon
    DEF Next, ProcessConfig, StartReturned, CtrlC, CtrlCInNew, MainShutdown, Shutdown,
        TasksStop, LinkCloses, Receive, Exited, vars, program
  <2>3. \/ exit_code' = exit_code \/ exit_code' = "SUCCESS" \/ exit_code' = "FAILURE"
        \/ exit_code' = "killed"
    <3>1. CASE StartReturned
      BY <3>1 DEF StartReturned
    <3>2. CASE ~StartReturned
      BY <1>2, <3>2, Zenon
      DEF Next, ProcessConfig, CtrlC, CtrlCInNew, MainShutdown, Shutdown,
          TasksStop, LinkCloses, Receive, Exited, vars, program
    <3> QED
      BY <3>1, <3>2
  <2> QED
    BY <2>1, <2>2, <2>3 DEF ProgramOK
<1> QED
  BY <1>1, <1>2

\* For any configurations and number of frames under way, whatever the server sends
\* and whenever it hangs up or the user stops the program, the state of the
\* connection, of start() and of the program is what TypeOK says.
THEOREM TypeCorrect == Spec => []TypeOK
<1>1. Spec => []ConversationOK
  BY ConversationInit, ConversationNext, PTL DEF Spec
<1>2. Spec => []ProgramOK
  BY OutcomeAlways, ProgramInit, ProgramNext, PTL DEF Spec
<1>3. RequestInv /\ ConversationOK /\ ProgramOK => TypeOK
  <2> SUFFICES ASSUME RequestInv, ConversationOK, ProgramOK  PROVE TypeOK
    OBVIOUS
  <2>1. config \in Config /\ phase \in Phases
    BY ClientAssumption, Zenon DEF RequestInv
  <2>2. requests \in Seq(Request)
    BY Zenon DEF RequestInv, Numbered
  <2>3. {cancelled, mining} \subseteq BOOLEAN
    BY Zenon DEF ConversationOK
  <2> QED
    BY <2>1, <2>2, <2>3, Zenon DEF TypeOK, ConversationOK, ProgramOK
<1> QED
  BY <1>1, <1>2, <1>3, RequestsAlways, PTL

=============================================================================
