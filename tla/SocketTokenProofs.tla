------------------------- MODULE SocketTokenProofs --------------------------
(***************************************************************************)
(* What TLAPS proves of SocketToken, for any number of shells and of       *)
(* failing system calls.                                                   *)
(***************************************************************************)
EXTENDS SocketToken, TLAPS

\* Nothing removes the entry, so who has found or written it can read it.
ReadersFind == \A s \in Shell : step[s] \in {"read", "readback"} => key # Absent

(* Once a shell has returned in a settled state, the state stays settled:  *)
(* nobody misses the entry any more, and so nobody writes.                 *)
StaysSettled ==
    failures = 0 /\ settled # {} => Settled /\ \A s \in settled : token[s] = key

TokenInv == TypeOK /\ ReadersFind /\ StaysSettled

ShellStep(s) == Search(s) \/ Read(s) \/ Create(s) \/ ReadBack(s)

\* A shell that has not begun holds no token.
LEMMA InitToken == Init => TokenInv
<1> SUFFICES ASSUME Init PROVE TokenInv
  OBVIOUS
<1> USE DEF Init
<1>1. TypeOK
  BY TokenAssumption DEF TypeOK, Steps, Token
<1>2. ReadersFind
  BY DEF ReadersFind
<1>3. StaysSettled
  BY DEF StaysSettled
<1> QED BY <1>1, <1>2, <1>3 DEF TokenInv

\* A system call keeps the types.
LEMMA StepType ==
    ASSUME TokenInv, NEW s \in Shell, ShellStep(s) PROVE TypeOK'
<1> USE TokenAssumption DEF TokenInv, TypeOK, Goto, Failing, Return, Steps, Token
<1>1. CASE Search(s)
  BY <1>1 DEF Search
<1>2. CASE Read(s)
  <2>1. key \in Shell
    BY <1>2 DEF Read, ReadersFind
  <2> QED BY <1>2, <2>1 DEF Read
<1>3. CASE Create(s)
  BY <1>3 DEF Create
<1>4. CASE ReadBack(s)
  <2>1. key \in Shell
    BY <1>4 DEF ReadBack, ReadersFind
  <2> QED BY <1>4, <2>1 DEF ReadBack
<1> QED BY <1>1, <1>2, <1>3, <1>4 DEF ShellStep

\* A system call takes the entry from nobody who has found it.
LEMMA StepReaders ==
    ASSUME TokenInv, NEW s \in Shell, ShellStep(s) PROVE ReadersFind'
<1> USE TokenAssumption DEF TokenInv, TypeOK, ReadersFind, Goto, Return
<1>1. CASE Search(s)
  BY <1>1 DEF Search
<1>2. CASE Read(s)
  BY <1>2 DEF Read
<1>3. CASE Create(s)
  BY <1>3 DEF Create
<1>4. CASE ReadBack(s)
  BY <1>4 DEF ReadBack
<1> QED BY <1>1, <1>2, <1>3, <1>4 DEF ShellStep

(* A shell that returns what the keyring holds keeps the state settled.    *)
LEMMA ReturnSettles ==
    ASSUME TokenInv, NEW s \in Shell, NEW from, Return(s, from, key), UNCHANGED <<key, failures>>
    PROVE  StaysSettled'
<1> SUFFICES ASSUME failures = 0, settled' # {}
             PROVE  Settled' /\ \A t \in settled' : token'[t] = key
  BY DEF StaysSettled
<1>1. Settled
  BY DEF Return, TokenInv, StaysSettled
<1>2. Settled'
  BY <1>1 DEF Settled, Return, Goto, TokenInv, TypeOK
<1>3. settled' = settled \cup {s}
  BY <1>1 DEF Return
<1>4. \A t \in settled : token[t] = key
  BY DEF TokenInv, StaysSettled
<1>5. \A t \in settled' : token'[t] = key
  BY <1>3, <1>4 DEF Return, TokenInv, TypeOK
<1> QED BY <1>2, <1>5

\* A system call unsettles no shell that had settled.
LEMMA StepSettled ==
    ASSUME TokenInv, NEW s \in Shell, ShellStep(s) PROVE StaysSettled'
<1>1. CASE Failing
  BY <1>1 DEF Failing, TokenInv, TypeOK, StaysSettled
<1>2. CASE UNCHANGED failures /\ Search(s)
  <2> SUFFICES ASSUME failures = 0, settled # {}
               PROVE  Settled' /\ \A t \in settled : token[t] = key
    BY <1>2 DEF StaysSettled, Search
  <2>1. Settled /\ \A t \in settled : token[t] = key
    BY DEF TokenInv, StaysSettled
  <2>2. Goto(s, "search", "read") /\ UNCHANGED key
    BY <1>2, <2>1 DEF Search, Settled, Failing, TokenInv, TypeOK
  <2> QED BY <2>1, <2>2 DEF Settled, Goto, TokenInv, TypeOK
<1>3. CASE UNCHANGED failures /\ Read(s)
  <2>1. Return(s, "read", key) /\ UNCHANGED key
    BY <1>3 DEF Read, Failing, TokenInv, TypeOK
  <2> QED BY <1>3, <2>1, ReturnSettles
<1>4. CASE UNCHANGED failures /\ Create(s)
  <2>1. step[s] = "create" /\ UNCHANGED settled
    BY <1>4 DEF Create, Failing, Goto, TokenInv, TypeOK
  <2>2. ~Settled
    BY <2>1 DEF Settled
  <2> QED BY <1>4, <2>1, <2>2 DEF TokenInv, StaysSettled
<1>5. CASE UNCHANGED failures /\ ReadBack(s)
  <2>1. Return(s, "readback", key) /\ UNCHANGED key
    BY <1>5 DEF ReadBack, Failing, TokenInv, TypeOK
  <2> QED BY <1>5, <2>1, ReturnSettles
<1>6. Failing \/ UNCHANGED failures
  BY DEF ShellStep, Search, Read, Create, ReadBack
<1> QED BY <1>1, <1>2, <1>3, <1>4, <1>5, <1>6 DEF ShellStep

\* Nothing changes when nothing happens.
LEMMA Stutter == TokenInv /\ UNCHANGED vars => TokenInv'
BY DEF TokenInv, TypeOK, ReadersFind, StaysSettled, Settled, vars

\* The invariant of the tokens, in every behaviour.
LEMMA TokenInvariant == Spec => []TokenInv
<1>1. TokenInv /\ [Next]_vars => TokenInv'
  <2> SUFFICES ASSUME TokenInv, Next PROVE TokenInv'
    BY Stutter
  <2> PICK s \in Shell : ShellStep(s)
    BY DEF Next, ShellStep
  <2> QED BY StepType, StepReaders, StepSettled DEF TokenInv
<1> QED BY InitToken, <1>1, PTL DEF Spec

(* No shell returns anything but a token or the empty string, whatever     *)
(* fails: a shell reads only an entry that somebody has written.           *)
(* (SocketToken, token_linux.go.)                                          *)
THEOREM TokenTypeCorrect == Spec => []TypeOK
BY TokenInvariant, PTL DEF TokenInv

(* The shells that return once the racing writes are over hold the token   *)
(* of the keyring, now and ever after, however many shells race.  (The     *)
(* read-back of SocketToken, which returns the payload that has won.)      *)
THEOREM SettledShellsConverge == Spec => []SettledShellsAgree
<1>1. TokenInv => SettledShellsAgree
  BY DEF TokenInv, StaysSettled, SettledShellsAgree
<1> QED BY <1>1, TokenInvariant, PTL
=============================================================================
