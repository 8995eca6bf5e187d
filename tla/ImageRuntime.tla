---------------------------- MODULE ImageRuntime ----------------------------
(***************************************************************************)
(* The runtime of an image PV (NDArrayRuntime of src/src/runtime.cpp) with *)
(* the frame parser of src/src/ntndarray.cpp and the health assessment of  *)
(* src/src/source_health.cpp.  A reader thread hands it batches of frames, *)
(* the application assesses its source, reconfigures, activates and        *)
(* retires it, and the source loses frames, restarts, is deleted, refuses  *)
(* reads and disconnects.                                                  *)
(*                                                                         *)
(* The producer's own count of its frames is not bounded; what it sends is *)
(* the count as a signed integer.  All errors of the parser are one, and   *)
(* an alarm is its error: "" is the alarm that is no alarm.                *)
(***************************************************************************)
EXTENDS Integers, SequencesExt

CONSTANTS
  Int32Max, Uint64Max,    \* the greatest values of the integer types
  ElementSize,            \* the width of each data type
  Attrs, Snapshots,       \* the fields, other than the ID, that a frame and the snapshot may have
  maxFrameBytes,
  ImageConfigs,           \* max_frame_gap, and whether there is a freshness deadline
  Steps,                  \* how far the producer's count moves between two frames
  FirstCount,             \* the count at the start
  MaxFrames, MaxEvents    \* bounds: frames sent; events of the source and updates

Uint32 == 2 * (Int32Max + 1)     \* values of 32 bits

ASSUME ImageAssumption ==
  /\ Int32Max \in Nat /\ Uint64Max \in Nat /\ maxFrameBytes \in 1..Uint64Max
  /\ \A c \in ImageConfigs : c.maxFrameGap \in 0..(Int32Max - 1)
  /\ \A d \in Steps : -Int32Max <= d /\ d < Uint32

VARIABLES
  reader,                 \* ReaderStatus of the subscription: epoch, connected, kind, readRejections
  count, frames,          \* the producer's count; frames sent
  batch,                  \* what handleRead() still has to handle, with its metadata
  alive, committed, config,
  haveGoodFrame, lastUniqueId, sample, healthError, currentAlarm,
  shown,                  \* the frame and the alarm of the PV
  published,              \* the alarm of the alarm registration
  update,                 \* a prepared Update
  behind,                 \* a new registration has not been refreshed
  pending, stats,         \* counts of invalid and skipped frames and discontinuities
  activated, lastGood, truth, events     \* history

sourceVars == <<reader, count, frames>>
stateVars == <<haveGoodFrame, lastUniqueId, sample, healthError, currentAlarm, shown, published, behind>>
countVars == <<pending, stats, lastGood, truth>>
lifeVars == <<alive, committed, config, activated, update>>
vars == <<events, sourceVars, batch, lifeVars, stateVars, countVars>>

-----------------------------------------------------------------------------
(* The frame parser *)

\* What the producer sends of its count.
Signed(n) == ((n + Int32Max + 1) % Uint32) - Int32Max - 1
IdOf(f) == IF f.attrs.wide THEN Int32Max + 1 ELSE Signed(f.count)

\* elements *= dimension, in 64 bits
Product(shape) == FoldLeft(LAMBDA acc, d : (acc * d) % (Uint64Max + 1), 1, shape)
Overflows(shape) ==
  \E i \in DOMAIN shape : Product(SubSeq(shape, 1, i - 1)) > Uint64Max \div shape[i]
expectedBytes(a) == (Product(a.shape) * ElementSize[a.dataType]) % (Uint64Max + 1)

\* A shape that is not a JSON array of numbers is empty.
parseShape(shape) == Len(shape) \in 1..3 /\ \A i \in DOMAIN shape : shape[i] \in 1..Int32Max

\* RGB needs three channels in the dimension of its layout.
validateColorShape(mode, shape) ==
  \/ mode = "mono"
  \/ \E i \in DOMAIN shape : <<mode, i>> \in {<<"rgb1", 1>>, <<"rgb2", 2>>, <<"rgb3", 3>>} /\ shape[i] = 3

TimeSources == {"", "unknown", "host", "camera_correlated", "ptp", "external_trigger"}

HeaderValid(f) ==
  LET a == f.attrs IN
    /\ a.schema = 1 /\ a.time > 0 /\ a.dataType \in DOMAIN ElementSize
    /\ parseShape(a.shape) /\ validateColorShape(a.colorMode, a.shape)
    /\ IdOf(f) \in (-Int32Max - 1)..Int32Max /\ a.timeSource \in TimeSources

\* The size is computed in 64 bits, and compared with the limit and the payload.
parseNDArrayFrame(f) ==
  LET a == f.attrs IN
    /\ HeaderValid(f) /\ ~Overflows(a.shape)
    /\ Product(a.shape) <= Uint64Max \div ElementSize[a.dataType]
    /\ expectedBytes(a) <= maxFrameBytes /\ a.payload = expectedBytes(a)

\* The same, by numbers without bounds.
WellFormed(f) ==
  /\ HeaderValid(f) /\ f.attrs.payload <= maxFrameBytes
  /\ f.attrs.payload = FoldLeft(LAMBDA acc, d : acc * d, ElementSize[f.attrs.dataType], f.attrs.shape)

\* Mutant of Step: without wrapping to 32 bits.
StepUnwrapped(previous, current) == IF current >= previous THEN current - previous ELSE Int32Max + 1

Step(previous, current) == (current - previous) % Uint32

\* Counts of one frame: invalid, skipped, discontinuities.
NoCounts == <<0, 0, 0>>
Plus(a, b) == [i \in 1..3 |-> a[i] + b[i]]

assessNDArrayFrameGap(previous, current, maxFrameGap) ==
  LET step == Step(previous, current) IN
    IF step <= 1 THEN NoCounts
    ELSE IF step >= Int32Max + 1 \/ step - 1 > maxFrameGap THEN <<0, 0, 1>>
    ELSE <<0, step - 1, 0>>

-----------------------------------------------------------------------------
(* The health of the source *)

accept(s, epoch, rejections) ==
  [s EXCEPT !.valid = TRUE, !.epoch = epoch, !.seenEpoch = epoch, !.error = "", !.aged = FALSE,
            !.acceptedReadRejections = rejections]
reject(s, epoch) == [s EXCEPT !.valid = FALSE, !.seenEpoch = epoch, !.error = "frame"]

\* The first state that applies.
States ==
  LET valid == sample.valid /\ sample.epoch = reader.epoch IN <<
    <<"inactive", ~(alive /\ committed)>>, <<"disconnected", ~reader.connected>>,
    <<"missing", reader.kind = "missing">>, <<"wrong-type", reader.kind = "invalid">>,
    <<"read-rejected", reader.readRejections > sample.acceptedReadRejections>>,
    <<"invalid", ~sample.valid /\ sample.seenEpoch = reader.epoch>>,
    <<"waiting", sample.epoch # reader.epoch>>, <<"invalid", ~valid>>,
    <<"stale", config.deadline /\ sample.aged>>, <<"ready", TRUE>>>>

assessSource == SelectSeq(States, LAMBDA state : state[2])[1][1]
statusError ==
  CASE assessSource \in {"inactive", "ready"} -> ""
    [] assessSource = "invalid" -> sample.error
    [] OTHER -> assessSource

\* What has happened to the reader since it captured a batch.
batchHealthError ==
  IF ~reader.connected THEN "disconnected"
  ELSE IF reader.readRejections > batch.readRejections THEN "read-rejected"
  ELSE ""

-----------------------------------------------------------------------------
NoBatch == [frames |-> <<>>, epoch |-> 0, readRejections |-> 0]
NoUpdate == [stage |-> "none"]
Frame(a, n) == [attrs |-> a, count |-> n]
NoFrame == FirstCount - 1
NewSample == [valid |-> FALSE, epoch |-> 0, seenEpoch |-> 0, error |-> "no data", aged |-> FALSE,
              acceptedReadRejections |-> 0]

\* initialize(): the snapshot is shown, and the rest is subscribed to.
Init ==
  /\ reader = [epoch |-> 1, connected |-> TRUE, kind |-> "stream", readRejections |-> 0]
  /\ count = FirstCount /\ frames = 0 /\ events = 0
  /\ batch = NoBatch /\ update = NoUpdate /\ behind = FALSE
  /\ alive = TRUE /\ committed = FALSE /\ activated = FALSE /\ config \in ImageConfigs
  /\ healthError = "" /\ stats = NoCounts
  /\ \/ /\ haveGoodFrame = FALSE /\ lastUniqueId = 0 /\ lastGood = <<>>
        /\ currentAlarm = "no valid frame" /\ shown = [frame |-> NoFrame, alarm |-> "no valid frame"]
        /\ sample = NewSample /\ pending = NoCounts /\ truth = NoCounts
     \/ \E a \in Snapshots : LET f == Frame(a, FirstCount) IN
          /\ truth = IF WellFormed(f) THEN NoCounts ELSE <<1, 0, 0>>
          /\ IF parseNDArrayFrame(f)
             THEN /\ haveGoodFrame = TRUE /\ lastUniqueId = IdOf(f) /\ lastGood = <<FirstCount, 1>>
                  /\ sample = accept(NewSample, 1, 0) /\ pending = NoCounts /\ currentAlarm = ""
                  /\ shown = [frame |-> FirstCount, alarm |-> ""]
             ELSE /\ haveGoodFrame = FALSE /\ lastUniqueId = 0 /\ lastGood = <<>>
                  /\ sample = reject(NewSample, 1) /\ pending = <<1, 0, 0>> /\ currentAlarm = "frame"
                  /\ shown = [frame |-> NoFrame, alarm |-> "frame"]
  /\ published = currentAlarm

-----------------------------------------------------------------------------
(* The source and its reader, until the subscription is retired *)

\* The producer sends one or two frames, which the reader hands over as a batch.
Deliver ==
  /\ alive /\ batch.frames = <<>> /\ reader.connected /\ reader.kind = "stream" /\ frames < MaxFrames
  /\ \E a \in Attrs, d \in Steps :
       LET one == Frame(a, count + d) IN
         \/ batch' = [frames |-> <<one>>, epoch |-> reader.epoch, readRejections |-> reader.readRejections]
            /\ count' = count + d /\ frames' = frames + 1
         \/ \E b \in Attrs :
              /\ frames + 1 < MaxFrames
              /\ batch' = [frames |-> <<one, Frame(b, count + d + 1)>>, epoch |-> reader.epoch,
                           readRejections |-> reader.readRejections]
              /\ count' = count + d + 1 /\ frames' = frames + 2
  /\ UNCHANGED <<events, reader, lifeVars, stateVars, countVars>>

ReaderEvent(next) ==
  /\ alive /\ reader' = next
  /\ UNCHANGED <<count, frames, batch, lifeVars, stateVars, countVars>>

Event == events < MaxEvents /\ events' = events + 1
Disconnect == reader.connected /\ Event /\ ReaderEvent([reader EXCEPT !.connected = FALSE])
Reconnect == ~reader.connected /\ UNCHANGED events /\ ReaderEvent([reader EXCEPT !.connected = TRUE])

\* The stream is deleted or replaced by something else, which starts a new epoch.
Delete ==
  /\ reader.kind = "stream" /\ Event
  /\ \E kind \in {"missing", "invalid"} :
       ReaderEvent([reader EXCEPT !.kind = kind, !.epoch = @ + 1])
Recreate == reader.kind # "stream" /\ UNCHANGED events /\ ReaderEvent([reader EXCEPT !.kind = "stream"])
RejectRead == Event /\ ReaderEvent([reader EXCEPT !.readRejections = @ + 1])

\* The deadline passes.
Age ==
  /\ alive /\ sample.valid /\ ~sample.aged /\ Event
  /\ sample' = [sample EXCEPT !.aged = TRUE]
  /\ UNCHANGED <<sourceVars, batch, lifeVars, countVars, haveGoodFrame, lastUniqueId, healthError,
                 currentAlarm, shown, published, behind>>

-----------------------------------------------------------------------------
(* handleRead() *)

Rest == [batch EXCEPT !.frames = Tail(@)]

\* The runtime is retired, or the source is in another epoch: the batch is dropped.
DropBatch ==
  /\ batch.frames # <<>> /\ (~alive \/ reader.epoch # batch.epoch)
  /\ batch' = NoBatch
  /\ UNCHANGED <<events, sourceVars, lifeVars, stateVars, countVars>>

Handling == batch.frames # <<>> /\ alive /\ reader.epoch = batch.epoch

\* A frame is counted in the statistics, or kept until the runtime is activated.
Count(delta) ==
  IF committed THEN stats' = Plus(stats, delta) /\ UNCHANGED pending
               ELSE pending' = Plus(pending, delta) /\ UNCHANGED stats

publishAlarm == published' = currentAlarm' /\ behind' = FALSE

\* Mutant of HealthAfter: the error of an earlier assessment is kept.
HealthKept == healthError

HealthAfter == batchHealthError

\* What is true of a frame, by the producer's own count.
TrueCounts(f) ==
  LET n == f.count IN
  IF ~WellFormed(f) THEN <<1, 0, 0>>
  ELSE IF lastGood = <<>> \/ lastGood[2] # batch.epoch \/ n - lastGood[1] \in {0, 1} THEN NoCounts
  ELSE IF n - lastGood[1] \in 2..(config.maxFrameGap + 1) THEN <<0, n - lastGood[1] - 1, 0>>
  ELSE <<0, 0, 1>>

AcceptFrame ==
  /\ Handling
  /\ LET f == Head(batch.frames) IN
       /\ parseNDArrayFrame(f)
       /\ Count(IF haveGoodFrame /\ sample.epoch = batch.epoch
                THEN assessNDArrayFrameGap(lastUniqueId, IdOf(f), config.maxFrameGap) ELSE NoCounts)
       /\ lastUniqueId' = IdOf(f) /\ haveGoodFrame' = TRUE
       /\ sample' = accept(sample, batch.epoch, batch.readRejections)
       /\ healthError' = HealthAfter /\ currentAlarm' = batchHealthError
       /\ shown' = [frame |-> f.count, alarm |-> currentAlarm']
       /\ lastGood' = <<f.count, batch.epoch>> /\ truth' = Plus(truth, TrueCounts(f))
  /\ publishAlarm /\ batch' = Rest
  /\ UNCHANGED <<events, sourceVars, lifeVars>>

\* The last good frame is kept, with an alarm.
RejectFrame ==
  /\ Handling /\ ~parseNDArrayFrame(Head(batch.frames))
  /\ Count(<<1, 0, 0>>) /\ truth' = Plus(truth, TrueCounts(Head(batch.frames)))
  /\ currentAlarm' = "frame" /\ sample' = reject(sample, batch.epoch)
  /\ shown' = [shown EXCEPT !.alarm = "frame"]
  /\ publishAlarm /\ batch' = Rest
  /\ UNCHANGED <<events, sourceVars, lifeVars, haveGoodFrame, lastUniqueId, healthError, lastGood>>

-----------------------------------------------------------------------------
(* The application *)

\* The pump assesses the source and posts what has changed.
sourceHealth ==
  /\ alive /\ committed /\ statusError # healthError
  /\ healthError' = statusError
  /\ currentAlarm' = statusError /\ shown' = [shown EXCEPT !.alarm = statusError]
  /\ publishAlarm
  /\ UNCHANGED <<events, sourceVars, batch, lifeVars, countVars, haveGoodFrame, lastUniqueId, sample>>

activate ==
  /\ ~committed /\ alive
  /\ committed' = TRUE /\ activated' = TRUE
  /\ stats' = Plus(stats, pending) /\ pending' = NoCounts
  /\ UNCHANGED <<events, sourceVars, batch, alive, config, update, stateVars, lastGood, truth>>

\* The runtime is replaced, or was never used.
deactivate ==
  /\ alive
  /\ alive' = FALSE /\ committed' = FALSE
  /\ UNCHANGED <<events, sourceVars, batch, config, activated, update, stateVars, countVars>>

\* The registration is kept unless there is another publisher, which starts with the
\* alarm of this moment.
prepareReconfigure ==
  /\ alive /\ committed /\ update = NoUpdate /\ Event
  /\ \E c \in ImageConfigs, registration \in {<<>>, <<currentAlarm>>} :
       update' = [stage |-> "prepared", config |-> c, registration |-> registration]
  /\ UNCHANGED <<sourceVars, batch, alive, committed, config, activated, stateVars, countVars>>

commit ==
  /\ update.stage = "prepared"
  /\ config' = update.config /\ update' = [stage |-> "committed"]
  /\ IF update.registration = <<>> THEN UNCHANGED <<published, behind>>
     ELSE published' = update.registration[1] /\ behind' = TRUE
  /\ UNCHANGED <<events, sourceVars, batch, alive, committed, activated, countVars, haveGoodFrame,
                 lastUniqueId, sample, healthError, currentAlarm, shown>>

refresh ==
  /\ update.stage = "committed" /\ alive
  /\ UNCHANGED currentAlarm /\ publishAlarm /\ update' = NoUpdate
  /\ UNCHANGED <<events, sourceVars, batch, alive, committed, config, activated, countVars, haveGoodFrame,
                 lastUniqueId, sample, healthError, shown>>

\* The generation is rejected; or another step of its refresh failed.
DropUpdate ==
  /\ update # NoUpdate
  /\ update' = NoUpdate
  /\ UNCHANGED <<events, sourceVars, batch, alive, committed, config, activated, stateVars, countVars>>

Next ==
  \/ Deliver \/ Disconnect \/ Reconnect \/ Delete \/ Recreate \/ RejectRead \/ Age
  \/ DropBatch \/ AcceptFrame \/ RejectFrame
  \/ sourceHealth \/ activate \/ deactivate \/ prepareReconfigure \/ commit \/ refresh \/ DropUpdate

Spec == Init /\ [][Next]_vars

-----------------------------------------------------------------------------
(* Properties *)

\* The statistics say what happened to the frames: however activation, epochs, batches,
\* wrapping IDs and reconfigurations interleave, every invalid frame, every frame that
\* the producer counted and the runtime did not see, and every jump is counted once,
\* and a runtime that is discarded before its activation counts nothing.
CountsAreTrue ==
  /\ stats = IF activated THEN truth ELSE NoCounts
  /\ ~activated => pending = truth

\* An alarm is never forgotten and never outlives its reason: when a health assessment
\* has nothing new to say, clients and the alarm stream see no alarm if and only if the
\* source is ready, whatever frames, errors, epochs and reconnections came before.
AlarmTracksHealth ==
  alive /\ committed /\ statusError = healthError =>
    /\ shown.alarm = "" <=> assessSource = "ready"
    /\ shown.alarm = currentAlarm /\ (behind \/ published = currentAlarm)
=============================================================================
