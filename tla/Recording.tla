----------------------------- MODULE Recording -----------------------------
(***************************************************************************)
(* A recording: frames appended to a file by one process and read back by  *)
(* any process at any time, also after the writer died (recording.rs; the  *)
(* commands record and replay and App::update in app.rs).                  *)
(*                                                                         *)
(* A file is a sequence of units: one of magic, two of a frame's length    *)
(* and Size[f] of its data, so that a length and a frame can be torn.  The *)
(* buffered writer holds units until they are flushed; data as large as    *)
(* its buffer is written past it.                                          *)
(***************************************************************************)
EXTENDS Naturals, SequencesExt

CONSTANTS
  Size,         \* Size[f]: encoded length of the f-th frame there is
  Newer,        \* frames with views this build does not have
  MaxFrame,     \* the largest frame written or read
  MaxReplay,    \* the largest total a replay loads
  BufferCap,    \* capacity of the buffered writer
  MaxFiles      \* bound: recordings there are

ASSUME RecordingAssumption ==
  /\ Size \in Seq(Nat \ {0}) /\ Newer \subseteq DOMAIN Size
  /\ MaxFrame \in Nat /\ MaxReplay \in Nat /\ BufferCap \in Nat /\ MaxFiles \in Nat

VARIABLES
  files,        \* the recordings on disk, each a sequence of units
  recording,    \* App::recording: the file being written and the frames counted
  buffer,       \* units in the BufWriter
  direct,       \* data being written past the buffer
  sampled,      \* frames sampled so far
  shown,        \* the frame on display; 0: none yet
  replay,       \* the frames of a replay, <<>> when live
  offered,      \* per file: frames whose push began (history)
  accepted,     \* per file: number of pushes that returned Ok (history)
  lost          \* whether the machine lost power (history)

recordingVars == <<files, recording, buffer, direct, sampled, shown, replay,
                   offered, accepted, lost>>

None == [file |-> 0, count |-> 0]
Magic == <<"magic", 0, 1>>
Header(f) == << <<"size", f, 1>>, <<"size", f, 2>> >>
Data(f) == [i \in 1..Size[f] |-> <<"data", f, i>>]
-----------------------------------------------------------------------------
(* One frame of a file from position p on, as read's loop meets it.  A      *)
(* length that is not one is some number past the limits.                   *)
FrameAt(units, p, total) ==
  LET left == Len(units) + 1 - p
      f == units[p][2]
      size == IF f > 0 /\ SubSeq(units, p, p + 1) = Header(f)
              THEN Size[f] ELSE MaxReplay + 1
      large == size > MaxFrame \/ total + size > MaxReplay
      torn == left < 2 \/ (~large /\ left < 2 + size)
      whole == ~large /\ SubSeq(units, p + 2, p + 1 + size) = Data(f) /\ f \notin Newer
  IN  IF torn THEN "end" ELSE IF whole THEN "frame" ELSE "error"

(* A round of read's loop: one frame more, or the end of it.                *)
ReadFrame(units, at) ==
  LET f == units[at.unit][2]
      met == FrameAt(units, at.unit, at.total)
  IN  CASE ~at.more \/ met = "end" -> [at EXCEPT !.more = FALSE]
        [] at.more /\ met = "error" -> [at EXCEPT !.more = FALSE, !.ok = FALSE]
        [] OTHER -> [at EXCEPT !.unit = @ + 2 + Size[f], !.total = @ + Size[f],
                               !.frames = Append(@, f)]

(* read: the frames before a torn tail, or an error for the whole file. A   *)
(* round that is not the last reads units.                                  *)
ReadBack(units) ==
  LET loop[i \in 0..Len(units)] ==
        IF i = 0 THEN [unit |-> 2, total |-> 0, frames |-> <<>>, ok |-> TRUE, more |-> TRUE]
        ELSE ReadFrame(units, loop[i - 1])
      end == loop[Len(units)]
  IN  IF units = <<>> \/ units[1] # Magic
      THEN [ok |-> FALSE, frames |-> <<>>]
      ELSE [ok |-> end.ok, frames |-> IF end.ok THEN end.frames ELSE <<>>]
-----------------------------------------------------------------------------
(* A file another build made may be there already.                          *)
RecordingInit ==
  /\ \E fs \in {<<>>} \cup {<< <<Magic>> \o Header(f) \o Data(f) >> : f \in Newer} :
        /\ files = fs
        /\ offered = [k \in DOMAIN fs |-> <<>>]
        /\ accepted = [k \in DOMAIN fs |-> 0]
  /\ recording = None /\ buffer = <<>> /\ direct = <<>>
  /\ sampled = 0 /\ shown = 0 /\ replay = <<>> /\ lost = FALSE

Pushing == buffer # <<>> \/ direct # <<>>
Frames == DOMAIN Size \ Newer

(* Recorder::push of frame f to file k up to its first write.  A frame that *)
(* is too large is an error before anything is written.                     *)
Push(k, f, before) ==
  /\ buffer' = before \o Header(f) \o (IF Size[f] < BufferCap THEN Data(f) ELSE <<>>)
  /\ direct' = IF Size[f] < BufferCap THEN <<>> ELSE Data(f)

(* "record" with no recording: a new file and the frame on display.  A      *)
(* recorder whose first push fails is dropped, which flushes the magic.     *)
StartRecording ==
  /\ ~Pushing /\ recording = None /\ shown # 0 /\ Len(files) < MaxFiles
  /\ accepted' = Append(accepted, 0)
  /\ IF Size[shown] > MaxFrame
     THEN /\ files' = Append(files, <<Magic>>)
          /\ offered' = Append(offered, <<>>)
          /\ UNCHANGED <<recording, buffer, direct>>
     ELSE /\ files' = Append(files, <<>>)
          /\ offered' = Append(offered, <<shown>>)
          /\ recording' = [file |-> Len(files) + 1, count |-> 0]
          /\ Push(Len(files) + 1, shown, <<Magic>>)
  /\ UNCHANGED <<sampled, shown, replay, lost>>

(* "record" with a recording: the recorder is taken and dropped.            *)
StopRecording ==
  /\ ~Pushing /\ recording # None
  /\ recording' = None
  /\ UNCHANGED <<files, buffer, direct, sampled, shown, replay, offered, accepted, lost>>

(* App::update: a sample is pushed to the recording whatever is displayed,  *)
(* and displayed unless a replay is.                                        *)
Update ==
  /\ ~Pushing
  /\ \E f \in Frames :
       /\ f > sampled
       /\ sampled' = f
       /\ shown' = IF replay = <<>> THEN f ELSE shown
       /\ CASE recording = None -> UNCHANGED <<recording, buffer, direct, offered>>
            [] recording # None /\ Size[f] > MaxFrame ->
                 recording' = None /\ UNCHANGED <<buffer, direct, offered>>
            [] OTHER -> /\ Push(recording.file, f, <<>>)
                        /\ offered' = [offered EXCEPT ![recording.file] = Append(@, f)]
                        /\ UNCHANGED recording
  /\ UNCHANGED <<files, replay, accepted, lost>>

(* One write(2) takes some of what is buffered, or of the data past it.     *)
Written(units, n) == files' = [files EXCEPT ![recording.file] = @ \o SubSeq(units, 1, n)]
WriteSome ==
  \/ /\ buffer # <<>>
     /\ \E n \in 1..Len(buffer) :
          /\ Written(buffer, n)
          /\ buffer' = SubSeq(buffer, n + 1, Len(buffer))
     /\ UNCHANGED direct
  \/ /\ buffer = <<>> /\ direct # <<>>
     /\ \E n \in 1..Len(direct) :
          /\ Written(direct, n)
          /\ direct' = SubSeq(direct, n + 1, Len(direct))
     /\ UNCHANGED buffer

(* The write that leaves nothing ends the push with Ok.                     *)
Write ==
  /\ Pushing
  /\ WriteSome
  /\ IF buffer' = <<>> /\ direct' = <<>>
     THEN /\ recording' = [recording EXCEPT !.count = @ + 1]
          /\ accepted' = [accepted EXCEPT ![recording.file] = @ + 1]
     ELSE UNCHANGED <<recording, accepted>>
  /\ UNCHANGED <<sampled, shown, replay, offered, lost>>

(* Mutant: the recorder of a failed push is kept.                           *)
WriteFailsKept ==
  /\ Pushing
  /\ \E n \in 0..Len(buffer) : Written(buffer, n)
  /\ buffer' = <<>> /\ direct' = <<>>
  /\ UNCHANGED <<recording, sampled, shown, replay, offered, accepted, lost>>

(* A write fails: the push returns the error, App drops the recorder, and   *)
(* the drop tries once more to flush what is still buffered.                *)
WriteFails ==
  /\ Pushing
  /\ \E n \in 0..Len(buffer) : Written(buffer, n)
  /\ recording' = None /\ buffer' = <<>> /\ direct' = <<>>
  /\ UNCHANGED <<sampled, shown, replay, offered, accepted, lost>>

(* "replay", also of the recording being written, and "live".               *)
Replay(k) ==
  /\ ~Pushing
  /\ LET r == ReadBack(files[k]) IN
     /\ r.ok /\ r.frames # <<>>
     /\ replay' = r.frames /\ shown' = r.frames[1]
  /\ UNCHANGED <<files, recording, buffer, direct, sampled, offered, accepted, lost>>
Seek ==
  /\ ~Pushing /\ replay # <<>>
  /\ shown' \in ToSet(replay)
  /\ UNCHANGED <<files, recording, buffer, direct, sampled, replay, offered, accepted, lost>>
Live ==
  /\ ~Pushing /\ replay # <<>>
  /\ replay' = <<>>
  /\ UNCHANGED <<files, recording, buffer, direct, sampled, shown, offered, accepted, lost>>

(* The process dies at any step; nothing of the file is synced, so a power  *)
(* failure leaves any prefix of what each file held.                        *)
Restarted ==
  /\ recording' = None /\ buffer' = <<>> /\ direct' = <<>>
  /\ shown' = 0 /\ replay' = <<>>
  /\ UNCHANGED <<sampled, offered, accepted>>
Crash == Restarted /\ UNCHANGED <<files, lost>>
PowerLoss ==
  /\ Restarted /\ lost' = TRUE
  /\ \E cut \in [DOMAIN files -> 0..Max({Len(files[k]) : k \in DOMAIN files} \cup {0})] :
       /\ \A k \in DOMAIN files : cut[k] <= Len(files[k])
       /\ files' = [k \in DOMAIN files |-> SubSeq(files[k], 1, cut[k])]

RecordingNext ==
  \/ StartRecording \/ StopRecording \/ Update \/ Write \/ WriteFails
  \/ \E k \in DOMAIN files : Replay(k)
  \/ Seek \/ Live \/ Crash \/ PowerLoss
-----------------------------------------------------------------------------
\* The lengths of the first frames of fs together, for any number of them.
Totals(fs) ==
  LET sum[i \in 0..Len(fs)] == IF i = 0 THEN 0 ELSE sum[i - 1] + Size[fs[i]]
  IN  sum

Total(fs) == Totals(fs)[Len(fs)]
Ours == {k \in DOMAIN files : offered[k] # <<>>}

(* At any moment, and whatever died, a recording of this build whose frames *)
(* fit a replay is read back as the frames that were pushed, in their order *)
(* and without a gap, and unless the power failed with every frame a push   *)
(* answered Ok for (docs/IMPLEMENTATION_PLAN.md: a partial recording        *)
(* recovers its valid prefix).                                              *)
PrefixIsRecovered ==
  \A k \in Ours :
    files[k] # <<>> /\ Total(offered[k]) <= MaxReplay =>
      LET r == ReadBack(files[k]) IN
      /\ r.ok
      /\ IsPrefix(r.frames, offered[k])
      /\ ~lost => Len(r.frames) >= accepted[k]
=============================================================================
