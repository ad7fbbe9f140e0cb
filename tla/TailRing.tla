------------------------------ MODULE TailRing ------------------------------
(***************************************************************************)
(* The output ring of a background job (agent/tools/background_buffer.go)  *)
(* and the tail read through the manager (background_manager.go tail): a   *)
(* command writes its stream while readers resume from absolute cursors,   *)
(* until the job's completion is published.                                *)
(*                                                                         *)
(* A byte is its position in the stream, so the whole stream is            *)
(* 1, 2, .., end and a wrong byte is a wrong number.                       *)
(***************************************************************************)
EXTENDS Integers, Sequences

CONSTANTS CapBytes,    \* capacity of the ring
          MaxWrite,    \* bound: bytes of one write
          MaxEnd,      \* bound: bytes written by the job
          MaxBytes     \* bound: bytes asked for by one read

ASSUME RingBounds == /\ CapBytes \in Nat \ {0} /\ MaxWrite \in Nat \ {0}
                     /\ MaxEnd \in Nat /\ MaxBytes \in Nat \ {0}

VARIABLES buf, floor, end,   \* tailRing
          done,              \* the job's done channel is closed
          tail               \* the tail call of a reader

ring == <<buf, floor, end>>
trVars == <<ring, done, tail>>

(* Where the call is; the published flag, the cursor and the result it has *)
(* so far; asked, the end of the stream when the ring was read.            *)
NoCursor == -1
NoTail == [at |-> "idle", published |-> FALSE, cursor |-> NoCursor,
           data |-> <<>>, next |-> 0, dropped |-> 0, asked |-> 0,
           eof |-> FALSE]

TrInit == buf = <<>> /\ floor = 0 /\ end = 0 /\ done = FALSE /\ tail = NoTail

-----------------------------------------------------------------------------
(* Bytes that have to go for n more to fit.                                *)
OverOffByOne(n) == Len(buf) + n - CapBytes - 1              \* mutant
Over(n) == Len(buf) + n - CapBytes

Bytes(from, to) == [i \in 1 .. to - from |-> from + i]

(* Write: a write at least as large as the ring replaces it, a smaller one *)
(* evicts the oldest bytes it needs.                                       *)
Write(n) ==
  /\ ~done /\ end + n <= MaxEnd
  /\ end' = end + n
  /\ \/ /\ n >= CapBytes
        /\ buf' = Bytes(end' - CapBytes, end')
        /\ floor' = end' - CapBytes
     \/ /\ n < CapBytes /\ Over(n) > 0
        /\ buf' = SubSeq(buf, Over(n) + 1, Len(buf)) \o Bytes(end, end')
        /\ floor' = floor + Over(n)
     \/ /\ n < CapBytes /\ Over(n) <= 0
        /\ buf' = buf \o Bytes(end, end')
        /\ UNCHANGED floor
  /\ UNCHANGED <<done, tail>>

(* The job's completion is published: its output is complete by then.      *)
Finish ==
  /\ ~done /\ done' = TRUE
  /\ UNCHANGED <<ring, tail>>

-----------------------------------------------------------------------------
(* tail: the job is looked up and its publication observed first.          *)
ObservePublished ==
  /\ tail.at = "idle"
  /\ tail' = [NoTail EXCEPT !.at = "read", !.published = done]
  /\ UNCHANGED <<ring, done>>

Least(a, b) == IF a < b THEN a ELSE b

(* Where a read from cursor c really starts, the gap it reports, and what  *)
(* a cursor past the end resumes from.                                     *)
Clamped(c) == IF c < floor THEN floor ELSE c
GapHidden(c) == 0                                           \* mutant
Gap(c) == Clamped(c) - c
PastEnd(c) == end

(* The newest retained bytes, up to max.                                   *)
ReadNewest(max) ==
  LET n == Least(Len(buf), max)
  IN [data |-> SubSeq(buf, Len(buf) - n + 1, Len(buf)),
      next |-> end, dropped |-> floor]

ReadFrom(c, max) ==
  IF c > end THEN [data |-> <<>>, next |-> PastEnd(c), dropped |-> 0]
  ELSE LET start == Clamped(c) - floor
           n == Least(Len(buf) - start, max)
       IN [data |-> SubSeq(buf, start + 1, start + n),
           next |-> Clamped(c) + n, dropped |-> Gap(c)]

Read(c, max) ==
  /\ tail.at = "read"
  /\ LET got == IF c = NoCursor THEN ReadNewest(max) ELSE ReadFrom(c, max)
     IN tail' = [tail EXCEPT !.at = "bounds", !.cursor = c, !.asked = end,
                   !.data = got.data, !.next = got.next,
                   !.dropped = got.dropped]
  /\ UNCHANGED <<ring, done>>

(* The end of the stream is read again for the EOF flag.                   *)
AtEnd == tail.next = end                                    \* mutant
EOF == tail.published /\ tail.next = end

Return ==
  /\ tail.at = "bounds"
  /\ tail' = [tail EXCEPT !.at = "returned", !.eof = EOF]
  /\ UNCHANGED <<ring, done>>

Again == tail.at = "returned" /\ tail' = NoTail /\ UNCHANGED <<ring, done>>

TrNext ==
  \/ \E n \in 1 .. MaxWrite : Write(n)
  \/ \E c \in NoCursor .. MaxEnd + 1, max \in 1 .. MaxBytes : Read(c, max)
  \/ Finish \/ ObservePublished \/ Return \/ Again

TrSpec == TrInit /\ [][TrNext]_trVars

-----------------------------------------------------------------------------
(* The ring is the newest part of the stream and as much of it as fits:    *)
(* no mix of small and oversized writes leaves a gap, a repeated byte or a *)
(* floor that does not match the oldest byte.                              *)
RingIsNewestTail ==
  /\ buf = Bytes(floor, end)
  /\ Len(buf) = Least(CapBytes, end)

(* A read from a cursor returns exactly the bytes after the cursor and the *)
(* reported gap, never more than were there, and resumes behind them: a    *)
(* reader that follows next misses nothing it is not told about.           *)
ReadHasNoSilentGap ==
  tail.at \in {"bounds", "returned"} /\ tail.cursor # NoCursor =>
    IF tail.cursor > tail.asked
      THEN tail.data = <<>> /\ tail.next = tail.asked
      ELSE /\ tail.data = Bytes(tail.cursor + tail.dropped, tail.next)
           /\ tail.next <= tail.asked
           /\ tail.data = <<>> => tail.next = tail.asked

(* A reader that is told EOF has read to the end of everything the job     *)
(* wrote or will write, whatever is written and published during the call. *)
EOFMeansComplete == tail.eof => done /\ tail.next = end
=============================================================================
