----------------------------- MODULE SessionLog -----------------------------
(***************************************************************************)
(* internal/sessionlog: the log that every command of every shell appends  *)
(* to, and cuts to its last maxLines lines after each line.                *)
(*                                                                         *)
(* The processes hold no lock.  Appending is one step (O_APPEND); the cut  *)
(* is three: read the file, truncate it, write from its start.  The file   *)
(* is a sequence of characters, for what is written over an appended line  *)
(* may be shorter or longer than that line.                                *)
(***************************************************************************)
EXTENDS Integers, FiniteSetsExt, SequencesExt

CONSTANTS
    Proc,       \* the processes that log
    MaxLines,   \* DefaultMaxLines
    Widths,     \* the lengths of lines
    MaxCalls,   \* bound: the lines logged in all
    MaxCrashes  \* bound: how often a process dies inside Log

ASSUME LogAssumption ==
    /\ IsFiniteSet(Proc)
    /\ MaxLines \in Nat \ {0} /\ Widths \subseteq Nat \ {0}
    /\ MaxCalls \in Nat /\ MaxCrashes \in Nat

NewLine == 0
Line == 1..MaxCalls
None == 0

VARIABLES
    file,       \* the log; a character is NewLine or the line it belongs to
    width,      \* width[i]: the length of line i
    logged,     \* the lines appended so far are 1..logged
    pc,         \* pc[p]: the next step of p in Log
    own,        \* own[p]: the line p logs
    data,       \* data[p]: what trim will write back
    crashes,    \* deaths so far
    \* History variables.  They record and influence nothing.
    alone,      \* the processes whose Log has met no other one
    exposed     \* the lines appended behind the back of a trim, or in the log
                \*   when a trim began beside another or died with the log
                \*   truncated

vars == <<file, width, logged, pc, own, data, crashes, alone, exposed>>

Text(i) == Append([n \in 1..width[i] |-> i], NewLine)

\* A text is empty or ends its last line.
IsText(t) == t \in Seq(Line \cup {NewLine}) /\ (t # <<>> => t[Len(t)] = NewLine)

(* Every variable has its type; the log and what is written back are texts,*)
(* so that the next line appended is a line of its own.  (Log, trim.)      *)
TypeOK ==
    /\ IsText(file)
    /\ width \in [Line -> Widths]
    /\ logged \in 0..MaxCalls
    /\ pc \in [Proc -> {"idle", "append", "read", "truncate", "write"}]
    /\ own \in [Proc -> Line \cup {None}]
    /\ \A p \in Proc : IsText(data[p])
    /\ crashes \in 0..MaxCrashes
    /\ alone \in SUBSET Proc /\ exposed \in SUBSET Line

Init ==
    /\ file = <<>>
    /\ width \in [Line -> Widths]
    /\ logged = 0
    /\ pc = [p \in Proc |-> "idle"]
    /\ own = [p \in Proc |-> None]
    /\ data = [p \in Proc |-> <<>>]
    /\ crashes = 0
    /\ alone = {} /\ exposed = {}

(***************************************************************************)
(* Lines of a text.                                                        *)
(***************************************************************************)
Breaks(text) == {n \in DOMAIN text : text[n] = NewLine}

\* strings.TrimRight(text, "\n")
TrimRight(text) ==
    SubSeq(text, 1, Max({0} \cup (DOMAIN text \ Breaks(text))))

LineCount(text) == Cardinality(Breaks(text)) + 1

\* The place after which the last n lines of a text with more lines begin.
BeforeLast(text, n) ==
    CHOOSE b \in Breaks(text) : Cardinality({c \in Breaks(text) : c >= b}) = n

\* Mutant: the first lines are kept.
LastLines_First(text, n) == Append(SubSeq(text, 1, BeforeLast(text, n) - 1), NewLine)

\* Mutant: the last line is not ended.
LastLines_Open(text, n) == SubSeq(text, BeforeLast(text, n) + 1, Len(text))

\* Mutant: one line too few.
LastLines_Short(text, n) ==
    Append(SubSeq(text, BeforeLast(text, n - 1) + 1, Len(text)), NewLine)

LastLines(text, n) ==
    Append(SubSeq(text, BeforeLast(text, n) + 1, Len(text)), NewLine)

(***************************************************************************)
(* Log.                                                                    *)
(***************************************************************************)
Goto(p, from, to) == pc[p] = from /\ pc' = [pc EXCEPT ![p] = to]

Busy == {p \in Proc : pc[p] # "idle"}

\* The processes that have read the log and are yet to write it back.
Trimming == {p \in Proc : pc[p] \in {"truncate", "write"}}

Call(p) ==
    /\ logged + Cardinality({q \in Proc : pc[q] = "append"}) < MaxCalls
    /\ Goto(p, "idle", "append")
    /\ alone' = IF Busy = {} THEN {p} ELSE {}
    /\ UNCHANGED <<file, width, logged, own, data, crashes, exposed>>

(* OpenFile with O_APPEND, one WriteString.                                *)
AppendLine(p) ==
    /\ Goto(p, "append", "read")
    /\ logged' = logged + 1
    /\ own' = [own EXCEPT ![p] = logged + 1]
    /\ file' = file \o Text(logged + 1)
    /\ exposed' = IF Trimming # {} THEN exposed \cup {logged + 1} ELSE exposed
    /\ UNCHANGED <<width, data, crashes, alone>>

(* trim: ReadFile; nothing to do while the lines are few.                  *)
ReadLog(p) ==
    /\ LET text == TrimRight(file) IN
        IF LineCount(text) <= MaxLines
          THEN Goto(p, "read", "idle") /\ UNCHANGED <<data, exposed>>
          ELSE /\ Goto(p, "read", "truncate")
               /\ data' = [data EXCEPT ![p] = LastLines(text, MaxLines)]
               /\ exposed' = IF Trimming # {} THEN 1..logged ELSE exposed
    /\ UNCHANGED <<file, width, logged, own, crashes, alone>>

(* WriteFile: open with O_TRUNC ...                                        *)
Truncate(p) ==
    /\ Goto(p, "truncate", "write")
    /\ file' = <<>>
    /\ UNCHANGED <<width, logged, own, data, crashes, alone, exposed>>

(* ... and write at the start, over what was appended meanwhile.           *)
WriteBack(p) ==
    /\ Goto(p, "write", "idle")
    /\ file' = data[p] \o SubSeq(file, Len(data[p]) + 1, Len(file))
    /\ data' = [data EXCEPT ![p] = <<>>]
    /\ UNCHANGED <<width, logged, own, crashes, alone, exposed>>

(* The process dies inside Log, or a call of it fails.                     *)
Crash(p) ==
    /\ pc[p] # "idle"
    /\ crashes < MaxCrashes
    /\ crashes' = crashes + 1
    /\ pc' = [pc EXCEPT ![p] = "idle"]
    /\ data' = [data EXCEPT ![p] = <<>>]
    /\ alone' = alone \ {p}
    /\ exposed' = IF pc[p] = "write" THEN 1..logged ELSE exposed
    /\ UNCHANGED <<file, width, logged, own>>

Log(p) == Call(p) \/ AppendLine(p) \/ ReadLog(p) \/ Truncate(p) \/ WriteBack(p)

Next == \E p \in Proc : Log(p) \/ Crash(p)

Spec == Init /\ [][Next]_vars

(***************************************************************************)
(* Properties.                                                             *)
(***************************************************************************)
Intact(i) ==
    \E n \in DOMAIN file :
        /\ n = 1 \/ file[n - 1] = NewLine
        /\ SubSeq(file, n, n + width[i]) = Text(i)

(* Whatever races and deaths have made of the log before, a Log that meets *)
(* no other one leaves its line as the last, and at most maxLines lines.   *)
(* (Log and trim.)                                                         *)
SoleWriterKept ==
    [][\A p \in alone :
         pc[p] # "idle" /\ pc'[p] = "idle" /\ p \in alone'
            => /\ IsSuffix(Text(own[p]), file')
               /\ Cardinality({n \in DOMAIN file' : file'[n] = NewLine}) <= MaxLines]_vars

(* A line is lost to maxLines newer ones, to a trim that had read the log  *)
(* before the line came, to two trims that overlap (the longer text leaves *)
(* a remainder behind the shorter, which the next trim counts as lines),   *)
(* or to a death between truncating and writing; never to anything else.   *)
LostOnlyToTrim ==
    (\A p \in Proc : pc[p] # "write") =>
        \A i \in (logged - MaxLines + 1)..logged : i \in Line \ exposed => Intact(i)
=============================================================================
