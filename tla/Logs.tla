-------------------------------- MODULE Logs ---------------------------------
(***************************************************************************)
(* The log of one container: the process that writes it, start and rm, and *)
(* "logs", which reads it in slices of lines and then follows it.          *)
(*                                                                         *)
(* A line is two positions of the file, its text and its newline, so that  *)
(* a reader can come between them.  What a reader prints as one line is an *)
(* interval of positions.  A text is shorter than 64 KiB, or it is long:   *)
(* its position then stands for its first 64 KiB, the rest, which is       *)
(* shorter, comes with the newline.  (Bound: no text has 128 KiB.)         *)
(***************************************************************************)
EXTENDS Naturals, Sequences

CONSTANTS
  AllSlice,      \* lines read at a time when all are printed (10000)
  SliceModulus,  \* lines read at a time when the last k are printed:
  SliceUnit,     \*   (k % SliceModulus + 1) * SliceUnit  (10 and 1000)
  MaxSize,       \* bound: positions that a process writes
  MaxTail        \* bound: the k of "logs --tail k"

ASSUME LogsAssumptions ==
  /\ {AllSlice, SliceModulus, SliceUnit} \subseteq Nat \ {0}
  /\ {MaxSize, MaxTail} \subseteq Nat

VARIABLES
  file,    \* "absent", "there" or "removed", and its directory with it
  size,    \* positions written
  long,    \* the lines, counted from 0, with a text of 64 KiB or more
  output,  \* where the output of the container's process goes
  r        \* the reader: one "logs" command

vars == <<file, size, long, output, r>>

-----------------------------------------------------------------------------
(* Data. *)

Least(a, b) == IF a < b THEN a ELSE b
Most(a, b) == IF a < b THEN b ELSE a

\* The lines from position o to position s, as bufio.Scanner finds them: the
\* first may be the end of a line, the last may lack its newline.
Lines(o, s) ==
  LET first == o \div 2
      count == IF o < s THEN (s + 1) \div 2 - first ELSE 0
  IN  [i \in 1 .. count |-> <<Most(o, 2 * (first + i - 1)), Least(s, 2 * (first + i))>>]

FirstOf(q, n) == SubSeq(q, 1, Least(n, Len(q)))
LastOf(q, n) == SubSeq(q, Len(q) - n + 1, Len(q))

NoReader ==
  [pc |-> "idle", k |-> 0, follow |-> FALSE, goal |-> 0, off |-> 0,
   cur |-> <<>>, pre |-> <<>>, out |-> <<>>]

\* A container that was run in the background has a log; a terminal's has none.
Init ==
  /\ \/ file = "there" /\ output = "log"
     \/ file = "absent" /\ output = "terminal"
  /\ size = 0 /\ long = {}
  /\ r = NoReader

-----------------------------------------------------------------------------
(* The container. *)

\* Its process prints a text or a newline.
Prints ==
  /\ output = "log" /\ size < MaxSize
  /\ size' = size + 1
  /\ \/ long' = long
     \/ size % 2 = 0 /\ long' = long \cup {size \div 2}
  /\ UNCHANGED <<file, output, r>>

Exit ==
  /\ output # "none"
  /\ output' = "none"
  /\ UNCHANGED <<file, size, long, r>>

\* start opens the log for reading only: what the process prints is lost.
Start ==
  /\ output = "none" /\ file = "there"
  /\ output' = "lost"
  /\ UNCHANGED <<file, size, long, r>>

\* rm -f deletes the directory.
Remove ==
  /\ file # "removed"
  /\ file' = "removed"
  /\ output' = "none"
  /\ UNCHANGED <<size, long, r>>

-----------------------------------------------------------------------------
(* logContainer. *)

\* The log is created when there is none.
Logs ==
  /\ r.pc \in {"idle", "done", "panic"} /\ file # "removed"
  /\ file' = "there"
  /\ \E k \in 0 .. MaxTail, follow \in BOOLEAN :
       r' = [NoReader EXCEPT !.pc = "stat", !.k = k, !.follow = follow]
  /\ UNCHANGED <<size, long, output>>

\* The command reads as far as the log went now, and maybe further.
Stat ==
  /\ r.pc = "stat"
  /\ r' = IF file = "there" THEN [r EXCEPT !.pc = "read", !.goal = size] ELSE NoReader
  /\ UNCHANGED <<file, size, long, output>>

Slice == IF r.k = 0 THEN AllSlice ELSE ((r.k % SliceModulus) + 1) * SliceUnit

\* bufio.Scanner gives up at a text that fills its buffer of 64 KiB.
Blocked(o) == {n \in long : o <= 2 * n /\ 2 * n < size}

\* Where the scanner ends that begins at offset o: one position.
Stops(o) ==
  {s \in {size} \cup {2 * n : n \in Blocked(o)} : \A n \in Blocked(o) : s <= 2 * n}

\* What is read from offset o as far as s: lines, and the offset of the file,
\* which is behind the text that was too long, and behind all that the scanner
\* has buffered when a slice ends earlier.
ReadsTo(o, s) ==
  LET all == Lines(o, s)
      got == FirstOf(all, Slice)
      reach == IF s < size THEN s + 1 ELSE size
  IN  IF Len(all) < Slice THEN {[lines |-> all, off |-> reach]}
      ELSE {[lines |-> got, off |-> p] : p \in got[Len(got)][2] .. reach}

\* What readLines returns: the callers ignore its error.
Reads(o) ==
  IF file # "there" THEN {[lines |-> <<>>, off |-> 0]}
  ELSE UNION {ReadsTo(o, s) : s \in Stops(o)}

\* Where the reader goes when the log has been read.
Then == IF r.follow THEN "follow" ELSE "done"

\* A bug: a log that was read to its end is read on.
ReadAll_Strict ==
  /\ r.pc = "read" /\ r.k = 0
  /\ \E got \in Reads(r.off) :
       r' = [r EXCEPT !.out = @ \o got.lines, !.off = got.off,
                      !.pc = IF got.off > r.goal THEN Then ELSE "read"]
  /\ UNCHANGED <<file, size, long, output>>

\* A bug: the log is followed from where it ended when the command began.
ReadAll_FromGoal ==
  /\ r.pc = "read" /\ r.k = 0
  /\ \E got \in Reads(r.off) :
       r' = [r EXCEPT !.out = @ \o got.lines,
                      !.off = IF got.off >= r.goal THEN r.goal ELSE got.off,
                      !.pc = IF got.off >= r.goal THEN Then ELSE "read"]
  /\ UNCHANGED <<file, size, long, output>>

ReadAll ==
  /\ r.pc = "read" /\ r.k = 0
  /\ \E got \in Reads(r.off) :
       r' = [r EXCEPT !.out = @ \o got.lines, !.off = got.off,
                      !.pc = IF got.off >= r.goal THEN Then ELSE "read"]
  /\ UNCHANGED <<file, size, long, output>>

\* The last slice and the one before it are kept.
ReadTail ==
  /\ r.pc = "read" /\ r.k > 0
  /\ \E got \in Reads(r.off) :
       r' = IF got.off >= r.goal
              THEN [r EXCEPT !.cur = got.lines, !.off = got.off, !.pc = "print"]
              ELSE [r EXCEPT !.cur = got.lines, !.off = got.off, !.pre = got.lines]
  /\ UNCHANGED <<file, size, long, output>>

\* The line numbered Len(cur) - 1, from 0, is asked of the slice before.
PrintPanics ==
  /\ Len(r.cur) < r.k /\ Slice + Len(r.cur) >= r.k
  /\ Len(r.cur) = 0 \/ Len(r.cur) - 1 > Len(r.pre)

\* A bug: the last k lines are counted from the first.
Printed_First ==
  IF Len(r.cur) >= r.k THEN FirstOf(r.cur, r.k) ELSE r.pre \o r.cur

Printed ==
  IF Len(r.cur) >= r.k THEN LastOf(r.cur, r.k)
  ELSE IF Slice + Len(r.cur) < r.k THEN r.pre \o r.cur
  ELSE SubSeq(r.pre, Len(r.cur), Len(r.pre)) \o r.cur

\* A bug: one line less is enough.
PrintTail_Short ==
  /\ r.pc = "print"
  /\ r' = IF Len(r.cur) <= r.k /\ Len(r.cur) # 1
            THEN [r EXCEPT !.pc = "panic"]
            ELSE [r EXCEPT !.pc = Then, !.out = Printed]
  /\ UNCHANGED <<file, size, long, output>>

PrintTail ==
  /\ r.pc = "print"
  /\ r' = IF PrintPanics THEN [r EXCEPT !.pc = "panic"]
          ELSE [r EXCEPT !.pc = Then, !.out = Printed]
  /\ UNCHANGED <<file, size, long, output>>

\* The tail library prints a line when it is complete, from the offset on that
\* was reached.
Follow ==
  LET end == 2 * (r.off \div 2 + 1) IN
  /\ r.pc = "follow" /\ file = "there" /\ end <= size
  /\ r' = [r EXCEPT !.out = Append(@, <<r.off, end>>), !.off = end]
  /\ UNCHANGED <<file, size, long, output>>

\* The command is interrupted.
Interrupt ==
  /\ r.pc \notin {"idle", "done", "panic"}
  /\ r' = NoReader
  /\ UNCHANGED <<file, size, long, output>>

ReaderStep == Stat \/ ReadAll \/ ReadTail \/ PrintTail

Next ==
  \/ Prints \/ Exit \/ Start \/ Remove
  \/ Logs \/ ReaderStep \/ Follow \/ Interrupt

\* The reader's own process goes on.
Fairness == WF_vars(ReaderStep)

Spec == Init /\ [][Next]_vars /\ Fairness

-----------------------------------------------------------------------------
(* Types. *)

Positions == 0 .. MaxSize
Intervals == Positions \X Positions

ReaderPoints == {"idle", "stat", "read", "print", "follow", "done", "panic"}

ReaderType ==
  [pc : ReaderPoints, k : 0 .. MaxTail, follow : BOOLEAN, goal : Positions, off : Positions,
   cur : Seq(Intervals), pre : Seq(Intervals), out : Seq(Intervals)]

\* No line is empty.
AreLines(q) == \A i \in DOMAIN q : q[i][1] < q[i][2]

\* The reader is never behind the end of the log.
TypeOK ==
  /\ file \in {"absent", "there", "removed"}
  /\ size \in Positions
  /\ long \subseteq {n \in Positions : 2 * n < size}
  /\ output \in {"log", "terminal", "lost", "none"}
  /\ r \in ReaderType
  /\ r.goal <= size /\ r.off <= size
  /\ AreLines(r.cur) /\ AreLines(r.pre) /\ AreLines(r.out)

-----------------------------------------------------------------------------
(* Properties. *)

\* Position b follows a, or after the text of a line of lost.
Meets(a, b, lost) == b = a \/ \E n \in lost : a = 2 * n /\ b = 2 * n + 1

\* q is the log from position o to position s, nothing left out and nothing
\* twice, but for texts of the lines of lost.
Covers(q, o, s, lost) ==
  /\ q = <<>> => Meets(o, s, lost)
  /\ q # <<>> => Meets(o, q[1][1], lost) /\ Meets(q[Len(q)][2], s, lost)
  /\ \A i \in 1 .. Len(q) - 1 : Meets(q[i][2], q[i + 1][1], lost)

OneSlice == Len(Lines(0, size)) < Slice

\* A log of less than a slice is printed in order, at least as far as it went
\* when the command began, and followed without a gap; nothing is lost of it but
\* the beginnings of long lines.
WholeLog ==
  r.k = 0 /\ OneSlice /\ r.pc \in {"read", "follow", "done"} /\ file = "there" =>
    /\ Covers(r.out, 0, r.off, long)
    /\ r.pc # "read" => r.off >= r.goal

\* A long line ends a read, and what was read before it is forgotten.
Ordinary == OneSlice /\ long = {}

\* Of a log of less than a slice and without long lines that has k lines or
\* more, the last k lines are printed, and followed without a gap.
TailOfLog ==
  LET lines == Lines(0, r.off) IN
  r.k > 0 /\ Ordinary /\ r.pc \in {"follow", "done"} /\ Len(Lines(0, r.goal)) >= r.k =>
    /\ Len(r.out) >= r.k
    /\ Covers(r.out, r.out[1][1], r.off, {})
    /\ r.pc = "done" => r.out = LastOf(lines, r.k)

\* "logs --tail k" of a log of less than a slice and without long lines panics
\* only when the log has fewer lines than that (container_manager.go 429-444).
PanicsOnShortLog ==
  r.pc = "panic" /\ Ordinary => Len(Lines(0, r.off)) < r.k

\* "logs" ends, unless it follows or the log is removed under its hands: the
\* offset of a file that cannot be opened is 0 for ever.
LogsEnd ==
  [](r.pc \in {"stat", "read", "print"} =>
       <>(r.pc \in {"idle", "follow", "done", "panic"} \/ file = "removed"))

=============================================================================
