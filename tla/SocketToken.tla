---------------------------- MODULE SocketToken -----------------------------
(***************************************************************************)
(* internal/paths SocketToken (token_linux.go): how the shells of a login  *)
(* agree on the random component of the socket path, through one entry of  *)
(* the kernel's @u keyring.                                                *)
(*                                                                         *)
(* A token is 16 random bytes; the token a shell draws is named by the     *)
(* shell.  The token decides the fixed socket, and with it the lock and    *)
(* the state file of EnsureAgent, so two shells with different tokens are  *)
(* two logins with different Fixed[l] there.                               *)
(***************************************************************************)
EXTENDS Integers, FiniteSets

CONSTANTS
    Shell,      \* the shells that ask for the token
    Absent,     \* no entry in the keyring: not a member of Shell
    NoToken,    \* the empty string, the tokenless degradation
    Failures    \* bound: how many system calls fail

ASSUME TokenAssumption ==
    Absent \notin Shell /\ NoToken \notin Shell /\ Absent # NoToken /\ Failures \in Nat

VARIABLES
    key,        \* the payload of the keyring entry
    step,       \* step[s]: where shell s is in SocketToken
    token,      \* token[s]: what SocketToken returned to s
    failures,   \* system calls that have failed so far
    settled     \* history: the shells that returned while the entry was in
                \*   place and no shell was about to write its own

vars == <<key, step, token, failures, settled>>

Token == Shell \cup {NoToken}
Steps == {"search", "read", "create", "readback", "done"}

TypeOK ==
    /\ key \in Shell \cup {Absent}
    /\ step \in [Shell -> Steps]
    /\ token \in [Shell -> Token]
    /\ failures \in 0..Failures
    /\ settled \in SUBSET Shell

Init ==
    /\ key = Absent
    /\ step = [s \in Shell |-> "search"]
    /\ token = [s \in Shell |-> NoToken]
    /\ failures = 0
    /\ settled = {}

Goto(s, from, to) == step[s] = from /\ step' = [step EXCEPT ![s] = to]

Failing == failures < Failures /\ failures' = failures + 1

\* No shell has missed the entry and is yet to write its own.
Settled == key # Absent /\ \A s \in Shell : step[s] # "create"

Return(s, from, t) ==
    /\ Goto(s, from, "done")
    /\ token' = [token EXCEPT ![s] = t]
    /\ settled' = IF Settled THEN settled \cup {s} ELSE settled

\* Mutant: the entry is not looked for.
Search_Skipped(s) ==
    /\ Goto(s, "search", "create")
    /\ UNCHANGED <<key, token, failures, settled>>

\* Mutant: the serial is used although the search found none.
Search_IgnoresMiss(s) ==
    /\ Goto(s, "search", "read")
    /\ UNCHANGED <<key, token, failures, settled>>

(* keyring.Search: an error reads as a miss.                               *)
Search(s) ==
    /\ \/ Goto(s, "search", IF key = Absent THEN "create" ELSE "read") /\ UNCHANGED failures
       \/ Goto(s, "search", "create") /\ Failing
    /\ UNCHANGED <<key, token, settled>>

(* keyring.Read of the entry found; a payload it cannot read is a miss.    *)
Read(s) ==
    /\ \/ Return(s, "read", key) /\ UNCHANGED failures
       \/ Goto(s, "read", "create") /\ Failing /\ UNCHANGED <<token, settled>>
    /\ UNCHANGED key

(* Draw a token and keyring.Add it.  Adding under a description that is    *)
(* there already updates the payload.  No random bytes, or no keyring: the *)
(* empty token.                                                            *)
Create(s) ==
    \/ /\ Goto(s, "create", "readback")
       /\ key' = s
       /\ UNCHANGED <<token, failures, settled>>
    \/ /\ Return(s, "create", NoToken)
       /\ Failing
       /\ UNCHANGED key

\* Mutant: the payload that was drawn, not the one that won.
ReadBack_Own(s) ==
    /\ Return(s, "readback", s)
    /\ UNCHANGED <<key, failures>>

(* Read the canonical payload back; when that fails, keep the own one.     *)
ReadBack(s) ==
    /\ \/ Return(s, "readback", key) /\ UNCHANGED failures
       \/ Return(s, "readback", s) /\ Failing
    /\ UNCHANGED key

Next == \E s \in Shell : Search(s) \/ Read(s) \/ Create(s) \/ ReadBack(s)

Fairness == \A s \in Shell : WF_vars(Search(s) \/ Read(s) \/ Create(s) \/ ReadBack(s))

Spec == Init /\ [][Next]_vars /\ Fairness

(* A shell that returns when every racing creator is past its write gets   *)
(* the token that is in the keyring and stays there, so all such shells,   *)
(* and every shell to come, share one socket path.  It takes a keyring     *)
(* that works: a failed read makes a shell overwrite the entry.            *)
SettledShellsAgree ==
    failures = 0 => \A s \in settled : token[s] = key

(* token_linux.go:18-20, "Every shell of a login converges on a single     *)
(* value": whoever has returned holds the same token.                      *)
EveryShellConverges ==
    failures = 0 =>
        \A s, t \in Shell :
            step[s] = "done" /\ step[t] = "done" => token[s] = token[t]
=============================================================================
