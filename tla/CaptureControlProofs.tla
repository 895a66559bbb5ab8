----------------------- MODULE CaptureControlProofs -----------------------
(***************************************************************************)
(* Theorems about CaptureControl, for any capacity of the probe channel    *)
(* and any number of requests.                                             *)
(***************************************************************************)
EXTENDS CaptureControl, TLAPS

-----------------------------------------------------------------------------
(* Types.  That ids never exceed what they may be is not inductive: each   *)
(* request, whether it is still a key's wish, waits in the channel or is   *)
(* worked on, will have at most one id of its own.                         *)

Busy == IF tpc \in {"mark", "clear", "start"} THEN 1 ELSE 0
Wish == IF wanted # NoRequest THEN 1 ELSE 0

StampsAreRequested == stamps + Len(queue) + Busy + Wish <= requests + 1

WishIsSent == mpc \in {"key", "join", "ended"} => wanted = NoRequest

TypeInv == ControlTypeOK /\ StampsAreRequested /\ WishIsSent

USE DEF tracerVars, kept, others, NoCapture, NoRequest

\* The types in two parts: the flags, and all the rest.
Flags ==
  /\ elapsed \in BOOLEAN /\ enabled \in BOOLEAN /\ slot \in BOOLEAN
  /\ replay \in BOOLEAN /\ stop \in BOOLEAN

Values ==
  /\ tpc \in {"loop", "requests", "mark", "stopped", "clear", "start", "poll",
              "finish", "failed", "check", "complete", "ended"}
  /\ asked \in Requests \cup {NoRequest} /\ session \in Stamps /\ stamps \in Stamps
  /\ data \in Data /\ status \in Stamps
  /\ queue \in Seq(Requests) /\ Len(queue) <= QueueCap
  /\ spc \in {"loop", "sampled", "ended"}
  /\ mpc \in {"top", "merge", "status", "request", "key", "join", "ended"}
  /\ wanted \in Requests \cup {NoRequest}
  /\ displayed \in Data /\ capture \in Stamps /\ history \subseteq Stamps /\ profile \in Stamps
  /\ requests \in 0..MaxRequests

LEMMA TypeParts == ControlTypeOK <=> Flags /\ Values
  BY Zenon DEF ControlTypeOK, Flags, Values

\* The threads start well typed, with one request when --trace is given.
LEMMA TypeInit == ControlInit => TypeInv
  <1> SUFFICES ASSUME ControlInit PROVE TypeInv
    OBVIOUS
  <1>1. Flags
    BY Zenon DEF ControlInit, Flags
  <1>2. queue \in Seq(Requests) /\ Len(queue) <= 1
    <2>1. CASE queue = <<>>
      BY <2>1
    <2>2. CASE queue = <<"start">>
      BY <2>2 DEF Requests
    <2> QED BY <2>1, <2>2 DEF ControlInit
  <1>3. 0 \in Stamps /\ Nothing \in Data
    BY ControlAssumption DEF Stamps, Data, Nothing
  <1>4. Values
    BY <1>2, <1>3, ControlAssumption DEF ControlInit, Values
  <1>5. StampsAreRequested /\ WishIsSent
    BY <1>2 DEF ControlInit, StampsAreRequested, WishIsSent, Busy, Wish
  <1> QED BY <1>1, <1>4, <1>5, TypeParts DEF TypeInv

\* Every step keeps the flags' type.
LEMMA FlagsStep == Flags /\ [ControlNext]_controlVars => Flags'
  <1> SUFFICES ASSUME Flags, [ControlNext]_controlVars PROVE Flags'
    OBVIOUS
  <1> USE DEF Flags
  <1>1. CASE Start
    BY <1>1, Zenon DEF Start
  <1>2. CASE Elapse
    BY <1>2, Zenon DEF Elapse
  <1>3. CASE Sampler
    BY <1>3, Zenon DEF Sampler, Collect, PutSample
  <1>4. CASE TakeSample
    BY <1>4, Zenon DEF TakeSample
  <1>5. CASE OtherKey
    BY <1>5, Zenon DEF OtherKey
  <1>6. CASE Quit
    BY <1>6, Zenon DEF Quit
  <1>7. CASE UNCHANGED <<elapsed, enabled, slot, replay, stop>>
    BY <1>7, Zenon
  <1> QED BY <1>1, <1>2, <1>3, <1>4, <1>5, <1>6, <1>7
    DEF ControlNext, Ended, controlVars, Main, Merge, ReadStatus, Send, Request, Join,
        TracerThread, Loop, TakeRequest, NoRequests, Mark, Stopped, Clear,
        StartFails, Poll, PollFails, Finish, Failed, NoPoll, Check, Complete

\* What a capture measured is telemetry of that capture.
LEMMA MeasuredType ==
  ASSUME session \in Stamps, NEW stacks \in BOOLEAN, Measuring(stacks)
  PROVE  data' \in Data
  BY DEF Measuring, Data

\* Ending a capture leaves none, and telemetry of it.
LEMMA FinishType ==
  ASSUME Values, FinishTrace
  PROVE  session' = NoCapture /\ data' \in Data
  BY MeasuredType DEF FinishTrace, Values

\* A step that hands out no id and leaves no more to do keeps the ids within
\* the requests, and so does one that takes a request for its id.
LEMMA StampsStep ==
  ASSUME StampsAreRequested, stamps \in Nat, requests \in Nat, Len(queue) \in Nat,
         stamps' \in Nat, requests' \in Nat, Len(queue') \in Nat,
         Busy \in 0..1, Busy' \in 0..1, Wish \in 0..1, Wish' \in 0..1,
         stamps' + Len(queue') + Busy' + Wish' - requests'
           <= stamps + Len(queue) + Busy + Wish - requests
  PROVE  StampsAreRequested'
  <1> DEFINE due  == stamps + Len(queue) + Busy + Wish
             due1 == stamps' + Len(queue') + Busy' + Wish'
             made == requests'
  <1>1. due \in Int /\ due1 \in Int /\ made \in Nat
    OBVIOUS
  <1>2. due <= requests + 1 /\ due1 - made <= due - requests
    BY DEF StampsAreRequested
  <1> HIDE DEF due, due1, made
  <1>3. due1 <= made + 1
    BY <1>1, <1>2
  <1> QED BY <1>3 DEF due1, made, StampsAreRequested

LEMMA SmallNumbers == Busy \in 0..1 /\ Busy' \in 0..1 /\ Wish \in 0..1 /\ Wish' \in 0..1
  BY DEF Busy, Wish

Parts == Values /\ StampsAreRequested /\ WishIsSent

\* Every step of the tracer keeps the types.
LEMMA TracerType == Parts /\ TracerThread => Parts'
  <1> SUFFICES ASSUME Parts, TracerThread PROVE Parts'
    OBVIOUS
  <1> USE ControlAssumption
      DEF Parts, Values, StampsAreRequested, WishIsSent, Busy, Wish
  <1>0. 0 \in Stamps /\ NoCapture \in Stamps
    BY DEF Stamps
  <1>1. CASE Loop
    BY <1>0, <1>1 DEF Loop
  <1>2. CASE TakeRequest
    <2>1. session' \in Stamps /\ data' \in Data
      BY <1>0, <1>2, FinishType DEF TakeRequest
    <2>2. Head(queue) \in Requests /\ Tail(queue) \in Seq(Requests) /\ Len(Tail(queue)) = Len(queue) - 1
      BY <1>2 DEF TakeRequest
    <2>3. Len(queue') = Len(queue) - 1 /\ queue' \in Seq(Requests) /\ asked' \in Requests
      BY <1>2, <2>2 DEF TakeRequest
    <2>4. stamps \in Nat /\ requests \in Nat /\ Len(queue) \in Nat
      BY DEF Stamps
    <2>5. Busy = 0 /\ UNCHANGED <<stamps, requests, Wish, WishIsSent>>
      BY <1>2 DEF TakeRequest
    <2>6. StampsAreRequested'
      <3> HIDE DEF Parts, Values, StampsAreRequested, Busy, Wish
      <3> QED BY <2>3, <2>4, <2>5, SmallNumbers, StampsStep DEF Parts
    <2>7. Len(queue') <= QueueCap
      BY <2>3
    <2> QED BY <1>2, <2>1, <2>3, <2>5, <2>6, <2>7 DEF TakeRequest
  <1>3. CASE NoRequests \/ NoPoll
    BY <1>3 DEF NoRequests, NoPoll
  <1>4. CASE Mark \/ Failed
    <2>1. data' \in Data
      BY <1>4 DEF Mark, Failed, MarkTraceStopped, Data
    <2>2. CASE Mark
      <3>1. stamps \in Nat /\ requests \in Nat /\ Len(queue) \in Nat
        BY DEF Stamps
      <3>2. Busy = 1 /\ UNCHANGED <<stamps, requests, queue, Wish>>
        BY <2>2 DEF Mark
      <3>3. StampsAreRequested'
        <4> HIDE DEF Parts, Values, StampsAreRequested, Busy, Wish
        <4> QED BY <3>1, <3>2, SmallNumbers, StampsStep DEF Parts
      <3> QED BY <2>1, <2>2, <3>3 DEF Mark
    <2>3. CASE Failed
      BY <2>1, <2>3 DEF Failed
    <2> QED BY <1>4, <2>2, <2>3
  <1>5. CASE Stopped
    BY <1>0, <1>5 DEF Stopped
  <1>6. CASE Clear
    BY <1>0, <1>6 DEF Clear, Data, Nothing
  <1>7. CASE Start
    <2>1. stamps' \in Stamps
      BY <1>7 DEF Start, Stamps
    <2> QED BY <1>7, <2>1 DEF Start
  <1>8. CASE StartFails
    <2>1. stamps' \in Stamps
      BY <1>8 DEF StartFails, Stamps
    <2> QED BY <1>0, <1>8, <2>1 DEF StartFails, Data
  <1>9. CASE Poll
    BY <1>9, MeasuredType DEF Poll
  <1>10. CASE PollFails
    BY <1>0, <1>10 DEF PollFails
  <1>11. CASE Finish
    BY <1>0, <1>11, FinishType DEF Finish
  <1>12. CASE Check
    BY <1>0, <1>12, FinishType DEF Check
  <1>13. CASE Complete
    BY <1>0, <1>13 DEF Complete, MarkTraceStopped, Data
  <1> QED BY <1>1, <1>2, <1>3, <1>4, <1>5, <1>6, <1>7, <1>8, <1>9, <1>10, <1>11, <1>12, <1>13
          DEF TracerThread

\* So do the passing of time and every step of the other threads.
LEMMA OthersType == Parts /\ (Elapse \/ Sampler \/ Main \/ UNCHANGED controlVars) => Parts'
  <1> SUFFICES ASSUME Parts, Elapse \/ Sampler \/ Main \/ UNCHANGED controlVars PROVE Parts'
    OBVIOUS
  <1> USE ControlAssumption
      DEF Parts, Values, StampsAreRequested, WishIsSent, Busy, Wish
  <1>1. CASE Elapse
    BY <1>1 DEF Elapse
  <1>2. CASE Sampler
    BY <1>2 DEF Sampler, Collect, PutSample
  <1>3. CASE TakeSample \/ ReadStatus \/ Quit \/ Join
    BY <1>3 DEF TakeSample, ReadStatus, Quit, Join
  <1>4. CASE Merge
    <2>1. data.id \in Stamps /\ 0 \in Stamps /\ {id \in {data.id} : data.current} \subseteq Stamps
      BY DEF Data, Stamps
    <2>2. capture' \in Stamps /\ history' \subseteq Stamps /\ profile' \in Stamps
      BY <1>4, <2>1 DEF Merge, Continued
    <2> QED BY <1>4, <2>2 DEF Merge
  <1>5. CASE Send
    <2>1. /\ queue' \in Seq(Requests) /\ Len(queue') <= QueueCap
          /\ Len(queue') <= Len(queue) + Wish
      <3>1. CASE queue' = queue
        BY <3>1
      <3>2. CASE wanted # NoRequest /\ Len(queue) < QueueCap /\ queue' = Append(queue, wanted)
        <4>1. wanted \in Requests
          BY <3>2
        <4>2. Append(queue, wanted) \in Seq(Requests) /\ Len(Append(queue, wanted)) = Len(queue) + 1
          BY <4>1
        <4> QED BY <3>2, <4>2
      <3> QED BY <1>5, <3>1, <3>2 DEF Send
    <2>2. Wish' = 0 /\ Busy' = Busy
      BY <1>5 DEF Send
    <2>3. StampsAreRequested'
      <3>1. /\ stamps \in Nat /\ requests \in Nat /\ Len(queue) \in Nat /\ Len(queue') \in Nat
            /\ UNCHANGED <<stamps, requests>>
        BY <1>5, <2>1 DEF Send, Stamps
      <3> HIDE DEF Parts, Values, StampsAreRequested, Busy, Wish
      <3> QED BY <2>1, <2>2, <3>1, SmallNumbers, StampsStep DEF Parts
    <2>4. UNCHANGED <<tpc, asked, session, stamps, data, status, spc, displayed, capture, history,
                      profile, requests>>
          /\ wanted' = NoRequest /\ mpc' = "key"
      BY <1>5 DEF Send
    <2> QED BY <2>1, <2>3, <2>4
  <1>6. ASSUME NEW r \in Requests, Request(r) PROVE Parts'
    <2>1. wanted = NoRequest /\ wanted' = r /\ requests' = requests + 1 /\ requests < MaxRequests
      BY <1>6 DEF Request
    <2>2. Wish = 0 /\ Wish' <= 1 /\ Wish' \in Nat /\ Busy' = Busy
      BY <1>6, <2>1 DEF Request
    <2>3. StampsAreRequested'
      <3>1. /\ stamps \in Nat /\ requests \in Nat /\ Len(queue) \in Nat
            /\ UNCHANGED <<stamps, queue>>
        BY <1>6 DEF Request, Stamps
      <3> HIDE DEF Parts, Values, StampsAreRequested, Busy, Wish
      <3> QED BY <2>1, <2>2, <3>1, SmallNumbers, StampsStep DEF Parts
    <2>4. UNCHANGED <<tpc, asked, session, stamps, data, status, queue, spc, displayed, capture,
                      history, profile>> /\ mpc' = "top"
      BY <1>6 DEF Request
    <2>5. requests' \in 0..MaxRequests /\ wanted' \in Requests \cup {NoRequest}
      BY <2>1
    <2> QED BY <2>3, <2>4, <2>5
  <1>7. CASE OtherKey
    BY <1>7 DEF OtherKey
  <1>8. CASE UNCHANGED controlVars
    BY <1>8 DEF controlVars
  <1> QED BY <1>1, <1>2, <1>3, <1>4, <1>5, <1>6, <1>7, <1>8 DEF Main

\* Every variable always has its type: the channel keeps within its capacity
\* and no capture has an id that nobody requested.
THEOREM TypeCorrect == ControlSpec => []ControlTypeOK
  <1>1. TypeInv /\ [ControlNext]_controlVars => TypeInv'
    <2>1. TypeInv <=> Flags /\ Parts
      BY TypeParts DEF TypeInv, Parts
    <2>2. Parts /\ [ControlNext]_controlVars => Parts'
      BY TracerType, OthersType DEF ControlNext, Ended
    <2> QED BY <2>1, <2>2, FlagsStep, PTL
  <1>2. ControlSpec => []TypeInv
    BY <1>1, TypeInit, PTL DEF ControlSpec
  <1> QED BY <1>2, PTL DEF TypeInv

-----------------------------------------------------------------------------
(* One capture's history.  The property is inductive.                      *)

\* Values and stacks that were merged are always of the one capture whose id
\* the main thread has.
THEOREM OneCapture == ControlSpec => []HistoryOfOneCapture
  <1>1. ControlInit => HistoryOfOneCapture
    BY DEF ControlInit, HistoryOfOneCapture
  <1>2. HistoryOfOneCapture /\ [ControlNext]_controlVars => HistoryOfOneCapture'
    <2> SUFFICES ASSUME HistoryOfOneCapture, [ControlNext]_controlVars PROVE HistoryOfOneCapture'
      OBVIOUS
    <2>1. CASE Merge
      BY <2>1 DEF Merge, Continued, HistoryOfOneCapture
    <2>2. CASE UNCHANGED kept
      BY <2>2 DEF HistoryOfOneCapture
    <2> QED BY <2>1, <2>2
      DEF ControlNext, Ended, controlVars, Elapse, Sampler, Main, TakeSample, ReadStatus, Send, Request,
          OtherKey, Quit, Join, TracerThread, Loop, TakeRequest, NoRequests, Mark, Stopped, Clear,
          Start, StartFails, Poll, PollFails, Finish, Failed, NoPoll, Check, Complete
  <1> QED BY <1>1, <1>2, PTL DEF ControlSpec

-----------------------------------------------------------------------------
(* The status.  It tells of the session between two rounds, and from the   *)
(* requests to the check within one; while a capture ends, the session is  *)
(* gone before the status is.                                              *)

StatusInv ==
  /\ tpc \in {"loop", "requests", "poll", "check"} => status = session
  /\ tpc \in {"mark", "stopped", "clear", "start", "failed", "complete"} => session = NoCapture
  /\ tpc \in {"finish", "failed"} => status = NoCapture

\* Whenever the tracer looks for its next round, the status line tells of the
\* capture that runs.
THEOREM StatusCorrect == ControlSpec => []StatusTells
  <1>1. ControlInit => StatusInv
    BY DEF ControlInit, StatusInv
  <1>2. ControlTypeOK /\ StatusInv /\ [ControlNext]_controlVars => StatusInv'
    <2> SUFFICES ASSUME ControlTypeOK, StatusInv, [ControlNext]_controlVars PROVE StatusInv'
      OBVIOUS
    <2> USE DEF StatusInv
    <2>1. CASE Loop \/ NoRequests \/ NoPoll
      BY <2>1 DEF Loop, NoRequests, NoPoll
    <2>2. CASE TakeRequest
      BY <2>2, FinishType, TypeParts DEF TakeRequest
    <2>3. CASE Mark \/ Stopped \/ Clear
      BY <2>3 DEF Mark, Stopped, Clear
    <2>4. CASE Start \/ StartFails
      BY <2>4 DEF Start, StartFails
    <2>5. CASE Poll \/ PollFails
      BY <2>5 DEF Poll, PollFails
    <2>6. CASE Finish
      BY <2>6, FinishType, TypeParts DEF Finish
    <2>7. CASE Check
      BY <2>7, FinishType, TypeParts DEF Check
    <2>8. CASE Failed \/ Complete
      BY <2>8 DEF Failed, Complete
    <2>9. CASE UNCHANGED <<tpc, status, session>>
      BY <2>9
    <2> QED BY <2>1, <2>2, <2>3, <2>4, <2>5, <2>6, <2>7, <2>8, <2>9
      DEF ControlNext, Ended, controlVars, TracerThread, Elapse, Sampler, Main, TakeSample, Merge, ReadStatus, Send,
          Request, OtherKey, Quit, Join
  <1>3. StatusInv => StatusTells
    BY DEF StatusInv, StatusTells
  <1> QED BY <1>1, <1>2, <1>3, TypeCorrect, PTL DEF ControlSpec

-----------------------------------------------------------------------------
(* What is current.  The tracer drops its capture without marking the      *)
(* published data when it is told to end; the main thread, which told it,  *)
(* reads no sample any more.                                               *)

CurrentInv ==
  /\ data.current => Ending \/ data.id = session \/ stop
  /\ tpc \in {"stopped", "clear", "start"} => ~data.current
  /\ stop => mpc \in {"join", "ended"}

\* No sample shows measurements of an ended capture as current, but between the
\* two locks that end it.
THEOREM CurrentCorrect == ControlSpec => CurrentIsRunning
  <1>1. ControlInit => CurrentInv
    BY DEF ControlInit, CurrentInv, Nothing
  <1>2. ControlTypeOK /\ CurrentInv /\ [ControlNext]_controlVars => CurrentInv'
    <2> SUFFICES ASSUME ControlTypeOK, CurrentInv, [ControlNext]_controlVars PROVE CurrentInv'
      OBVIOUS
    <2> USE DEF CurrentInv, Ending
    <2>1. CASE Loop \/ NoRequests \/ NoPoll
      BY <2>1 DEF Loop, NoRequests, NoPoll
    <2>2. CASE TakeRequest \/ Finish
      BY <2>2 DEF TakeRequest, Finish
    <2>3. CASE Mark \/ Failed \/ Complete
      BY <2>3 DEF Mark, Failed, Complete, MarkTraceStopped, ControlTypeOK, Data
    <2>4. CASE Stopped \/ Clear
      BY <2>4 DEF Stopped, Clear, Nothing
    <2>5. CASE Start \/ StartFails
      BY <2>5 DEF Start, StartFails
    <2>6. CASE Poll
      BY <2>6 DEF Poll, Measuring
    <2>7. CASE PollFails
      BY <2>7 DEF PollFails
    <2>8. CASE Check
      BY <2>8 DEF Check
    <2>9. CASE Main
      BY <2>9 DEF Main, TakeSample, Merge, ReadStatus, Send, Request, OtherKey, Quit, Join
    <2>10. CASE UNCHANGED <<tpc, data, session, stop, mpc>>
      BY <2>10
    <2> QED BY <2>1, <2>2, <2>3, <2>4, <2>5, <2>6, <2>7, <2>8, <2>9, <2>10
      DEF ControlNext, Ended, controlVars, TracerThread, Elapse, Sampler
  <1>3. CurrentInv /\ [ControlNext]_controlVars
        => [mpc = "merge" /\ mpc' = "status" /\ displayed'.current
            => Ending \/ displayed'.id = session]_controlVars
    <2> SUFFICES ASSUME CurrentInv, ControlNext, mpc = "merge", mpc' = "status", displayed'.current
                 PROVE  Ending \/ displayed'.id = session
      OBVIOUS
    <2>1. Merge
      BY DEF ControlNext, Ended, controlVars, TracerThread, Loop, TakeRequest, NoRequests, Mark, Stopped, Clear,
             Start, StartFails, Poll, PollFails, Finish, Failed, NoPoll, Check, Complete,
             Elapse, Sampler, Main, TakeSample, ReadStatus, Send, Request, OtherKey, Quit, Join
    <2> QED BY <2>1 DEF Merge, CurrentInv
  <1> QED BY <1>1, <1>2, <1>3, TypeCorrect, PTL DEF ControlSpec, CurrentIsRunning

=============================================================================
