-------------------------- MODULE KeyLoaderProofs ---------------------------
(***************************************************************************)
(* What TLAPS proves of KeyLoader, for any number of shells, clients,      *)
(* keys and passphrases, any config file and environments, any faults and  *)
(* any bounds.                                                             *)
(***************************************************************************)
EXTENDS KeyLoader, SettingsProofs, WellFoundedInduction

\* The steps between keys; at all others a shell has a key at work.
Between == {"snapshot", "dedup", "done", "crashed"}

AtWork(s) == pc[s] \notin Between => todo[s] # {}

AttemptsBounded(s) == max(s) \in 1..MaxAttempts

TypeInv == TypeOK /\ \A s \in Shell : AtWork(s) /\ AttemptsBounded(s)

\* Everything that can move, without the history.
Move ==
    \/ \E s \in Shell : Loader(s)
    \/ \E c \in Ssh : Broker(c)
    \/ Environment

(***************************************************************************)
(* Types.                                                                  *)
(***************************************************************************)

(* The first of a shell's keys is one of them.                             *)
LEMMA FirstKey ==
    ASSUME NEW T \in SUBSET Key, T # {} PROVE Min(T) \in T
<1>1. T \subseteq Nat
  BY KeyAssumption
<1>2. PICK n \in T : \A m \in T : ~ (<<m, n>> \in OpToRel(<, Nat))
  BY <1>1, NatLessThanWellFounded, WFMin
<1>3. \A m \in T : n <= m
  <2> TAKE m \in T
  <2>1. m \in Nat /\ n \in Nat
    BY <1>1
  <2>2. ~ (m < n)
    BY <1>2, <2>1 DEF OpToRel
  <2> QED BY <2>1, <2>2
<1> QED BY <1>3 DEF Min

\* A shell at work on a key has it still to do.
LEMMA CurrentKeyType ==
    ASSUME TypeInv, NEW s \in Shell, pc[s] \notin Between
    PROVE  CurrentKey(s) \in todo[s] /\ CurrentKey(s) \in Key
BY FirstKey DEF TypeInv, TypeOK, LoaderTypeOK, AtWork, CurrentKey

\* Whatever the environments and the config file resolve to, the state is well typed.
LEMMA InitType == Init => TypeInv
<1> SUFFICES ASSUME Init PROVE TypeInv
  OBVIOUS
<1>1. PICK environ \in Environs : settings = [s \in Shell |-> Resolve(Load(ConfigFile), environ[s])]
  BY DEF Init
<1>2. \A s \in Shell : environ[s] \in Environ
  BY SettingAssumption
<1>3. Load(ConfigFile) \in File
  BY SettingAssumption, LoadTotal
<1>4. settings \in [Shell -> SettingsType]
  BY <1>1, <1>2, <1>3, ResolveTotal
<1>5. ASSUME NEW s \in Shell PROVE AttemptsBounded(s)
  <2>1. settings[s].MaxAttempts \in Nat
    BY <1>4 DEF SettingsType
  <2>2. max(s) \in Nat /\ 1 <= max(s)
    BY <2>1 DEF max, Attempts, defaultMaxAttempts
  <2>3. max(s) <= MaxAttempts
    BY <1>1, AttemptsAssumption DEF max
  <2> QED BY <2>2, <2>3, AttemptsAssumption DEF AttemptsBounded
<1>6. \A s \in Shell : AtWork(s)
  BY DEF Init, AtWork, Between
<1>7. /\ pc \in [Shell -> PC] /\ todo \in [Shell -> SUBSET Key]
      /\ attempt \in [Shell -> Nat] /\ \A s \in Shell : attempt[s] <= max(s)
  BY <1>5, AttemptsAssumption DEF Init, PC, AttemptsBounded
<1>8. accepted \in [Key -> SUBSET (Line \cup {Absent})]
  BY DEF Init
<1>9. ask \in [Ssh -> {"idle", "lookup", "prompt", "done"} \X Key]
  BY DEF Init
<1>10. TypeOK
  BY <1>4, <1>7, <1>8, <1>9, BoundAssumption DEF Init, TypeOK, WorldTypeOK, LoaderTypeOK, HistoryTypeOK
<1> QED BY <1>5, <1>6, <1>10 DEF TypeInv

(* A step of a loader leaves a well-typed world.                           *)
LEMMA LoaderKeepsWorld ==
    ASSUME TypeInv, NEW s \in Shell, Loader(s) PROVE WorldTypeOK'
<1> DEFINE k == CurrentKey(s)
<1> USE DEF TypeInv, TypeOK, WorldTypeOK, LoaderTypeOK, Goto, Fault, world, records, keyring, bounds
<1>1. pc[s] \notin Between => k \in Key /\ CurrentEntry(s) \in Entry
  BY CurrentKeyType, AttemptsAssumption DEF CurrentEntry, Entry, AttemptsBounded
<1>2. CASE Snapshot(s)
  BY <1>2, BoundAssumption DEF Snapshot
<1>3. CASE Dedup(s)
  BY <1>3 DEF Dedup
<1>4. CASE GivenUp(s)
  BY <1>4, BoundAssumption DEF GivenUp, ReadRecord
<1>5. CASE Prune(s)
  BY <1>5, <1>1, BoundAssumption DEF Prune, RemoveRecord
<1>6. CASE Lookup(s)
  BY <1>6, BoundAssumption DEF Lookup
<1>7. CASE Prompt(s)
  BY <1>7 DEF Prompt
<1>8. CASE Stash(s)
  BY <1>8, <1>1, BoundAssumption DEF Stash, Between
<1>9. CASE SetTimeout(s)
  BY <1>9, <1>1, BoundAssumption DEF SetTimeout
<1>10. CASE AddPlain(s)
  BY <1>10, <1>1 DEF AddPlain, Accepted, Between
<1>11. CASE HelperRead(s)
  BY <1>11 DEF HelperRead
<1>12. CASE HelperUnlink(s)
  BY <1>12 DEF HelperUnlink
<1>13. CASE Verify(s)
  BY <1>13, <1>1 DEF Verify, Accepted, Between
<1>14. CASE AddFails(s)
  BY <1>14, <1>1, BoundAssumption DEF AddFails, Adding, Between
<1>15. CASE AddAbandoned(s)
  BY <1>15, <1>1, BoundAssumption DEF AddAbandoned, Adding, Between
<1>16. CASE AddOnTerminal(s)
  BY <1>16, <1>1 DEF AddOnTerminal, Accepted, Between
<1>17. CASE StorePassphrase(s)
  BY <1>17, <1>1, BoundAssumption DEF StorePassphrase
<1>18. CASE ClearGiveup(s)
  BY <1>18, <1>1, BoundAssumption DEF ClearGiveup, RemoveRecord
<1>19. CASE TruncateRecord(s)
  BY <1>19, <1>1, BoundAssumption DEF TruncateRecord, Between
<1>20. CASE StampRecord(s)
  BY <1>20, <1>1, BoundAssumption DEF StampRecord, Between
<1> QED BY <1>2, <1>3, <1>4, <1>5, <1>6, <1>7, <1>8, <1>9, <1>10, <1>11, <1>12, <1>13, <1>14,
           <1>15, <1>16, <1>17, <1>18, <1>19, <1>20 DEF Loader, Machine, Waits, Askpass

(* ... and well-typed loaders, with a key at work where one is needed and  *)
(* no attempt past the last one.                                           *)
LEMMA LoaderKeepsTypes ==
    ASSUME TypeInv, NEW s \in Shell, Loader(s)
    PROVE  LoaderTypeOK' /\ \A t \in Shell : AtWork(t)' /\ AttemptsBounded(t)'
<1>1. UNCHANGED settings
  BY DEF world, Loader, Machine, Waits, Askpass, Snapshot, Dedup, GivenUp, ReadRecord, Prune, Lookup, Prompt,
         Stash, SetTimeout, AddPlain, HelperRead, HelperUnlink, Verify, AddFails, AddAbandoned,
         AddOnTerminal, StorePassphrase, ClearGiveup, TruncateRecord, StampRecord
<1>2. \A t \in Shell : Attempts(settings[t]) \in Nat /\ 1 <= Attempts(settings[t])
  BY AttemptsAssumption DEF TypeInv, AttemptsBounded, max
<1> SUFFICES LoaderTypeOK' /\ \A t \in Shell : AtWork(t)'
  BY <1>1 DEF TypeInv, AttemptsBounded, max
<1> USE <1>1, <1>2 DEF TypeInv, TypeOK, LoaderTypeOK, Goto, NextKey, AtWork, Between, PC,
            AskpassSteps, world, locals, max
<1>3. CASE Snapshot(s)
  BY <1>3 DEF Snapshot, WorldTypeOK
<1>4. CASE Dedup(s)
  BY <1>4 DEF Dedup
<1>5. CASE GivenUp(s)
  BY <1>5 DEF GivenUp, ReadRecord, StartAttempts
<1>6. CASE Prune(s)
  BY <1>6 DEF Prune, StartAttempts
<1>7. CASE Lookup(s)
  BY <1>7 DEF Lookup, Usable, Line
<1>8. CASE Prompt(s)
  BY <1>8 DEF Prompt
<1>9. CASE Stash(s)
  BY <1>9 DEF Stash
<1>10. CASE SetTimeout(s)
  BY <1>10 DEF SetTimeout
<1>11. CASE AddPlain(s)
  BY <1>11 DEF AddPlain, Accepted
<1>12. CASE HelperRead(s)
  BY <1>12 DEF HelperRead
<1>13. CASE HelperUnlink(s)
  BY <1>13 DEF HelperUnlink
<1>14. CASE Verify(s)
  BY <1>14 DEF Verify, Accepted, Refused, AskAgain
<1>15. CASE AddFails(s)
  BY <1>15 DEF AddFails, Refused, AskAgain
<1>16. CASE AddAbandoned(s)
  BY <1>16 DEF AddAbandoned
<1>17. CASE AddOnTerminal(s)
  BY <1>17 DEF AddOnTerminal, Accepted, Refused, AskAgain
<1>18. CASE StorePassphrase(s)
  BY <1>18 DEF StorePassphrase
<1>19. CASE ClearGiveup(s)
  BY <1>19 DEF ClearGiveup
<1>20. CASE TruncateRecord(s)
  BY <1>20 DEF TruncateRecord
<1>21. CASE StampRecord(s)
  BY <1>21 DEF StampRecord
<1> QED BY <1>3, <1>4, <1>5, <1>6, <1>7, <1>8, <1>9, <1>10, <1>11, <1>12, <1>13, <1>14, <1>15, <1>16, <1>17, <1>18, <1>19, <1>20, <1>21 DEF Loader, Machine, Waits, Askpass

(* The same of the steps of everything else.                               *)
LEMMA OthersKeepTypes ==
    ASSUME TypeInv, (\E c \in Ssh : Broker(c)) \/ Environment
    PROVE  WorldTypeOK' /\ LoaderTypeOK' /\ \A t \in Shell : AtWork(t)' /\ AttemptsBounded(t)'
<1> USE BoundAssumption DEF TypeInv, TypeOK, WorldTypeOK, LoaderTypeOK, AtWork, AttemptsBounded,
                            max, Fault, world, records, keyring, locals, bounds
<1>1. ASSUME NEW c \in Ssh, BrokerCalled(c) PROVE WorldTypeOK'
  BY <1>1 DEF BrokerCalled, AskGoto, AskKey
<1>2. ASSUME NEW c \in Ssh, BrokerLookup(c) PROVE WorldTypeOK'
  BY <1>2 DEF BrokerLookup, AskGoto, AskKey
<1>3. ASSUME NEW c \in Ssh, BrokerPrompt(c) PROVE WorldTypeOK'
  BY <1>3 DEF BrokerPrompt, AskGoto, AskKey, Line
<1>4. ASSUME NEW c \in Ssh, Broker(c)
      PROVE  WorldTypeOK' /\ LoaderTypeOK' /\ \A t \in Shell : AtWork(t)' /\ AttemptsBounded(t)'
  <2>1. UNCHANGED <<settings, pc, todo, locals, dead>>
    BY <1>4 DEF Broker, BrokerCalled, BrokerLookup, BrokerPrompt
  <2>2. WorldTypeOK'
    BY <1>1, <1>2, <1>3, <1>4 DEF Broker
  <2> QED BY <2>1, <2>2
<1>5. ASSUME NEW s \in Shell, Crash(s)
      PROVE  WorldTypeOK' /\ LoaderTypeOK' /\ \A t \in Shell : AtWork(t)' /\ AttemptsBounded(t)'
  BY <1>5 DEF Crash, PC, Between
<1>6. ASSUME NEW k \in Key, KeyExpires(k) \/ RecordExpires(k)
      PROVE  WorldTypeOK' /\ LoaderTypeOK' /\ \A t \in Shell : AtWork(t)' /\ AttemptsBounded(t)'
  BY <1>6 DEF KeyExpires, RecordExpires
<1>7. ASSUME NEW k \in Key, Rekey(k)
      PROVE  WorldTypeOK' /\ LoaderTypeOK' /\ \A t \in Shell : AtWork(t)' /\ AttemptsBounded(t)'
  BY <1>7 DEF Rekey
<1>8. ASSUME NEW e \in timed, StashExpires(e)
      PROVE  WorldTypeOK' /\ LoaderTypeOK' /\ \A t \in Shell : AtWork(t)' /\ AttemptsBounded(t)'
  BY <1>8 DEF StashExpires
<1> QED BY <1>4, <1>5, <1>6, <1>7, <1>8 DEF Environment

\* The next step of a shell, a client or the environment, and the history.
LEMMA NextIsMove == Next <=> Move /\ Remember
BY DEF Next, Move

\* A passphrase that ssh-add accepts is remembered under its key.
LEMMA AcceptedGrows ==
    ASSUME TypeInv, Move
    PROVE  /\ accepted' \in [Key -> SUBSET (Line \cup {Absent})]
           /\ \A k \in Key : accepted[k] \subseteq accepted'[k]
<1> USE DEF TypeInv, TypeOK, WorldTypeOK, LoaderTypeOK, HistoryTypeOK
<1>1. ASSUME NEW s \in Shell, NEW p \in Line \cup {Absent}, pc[s] \notin Between, Accepted(s, p)
      PROVE  /\ accepted' \in [Key -> SUBSET (Line \cup {Absent})]
             /\ \A k \in Key : accepted[k] \subseteq accepted'[k]
  <2>1. CurrentKey(s) \in Key
    BY <1>1, CurrentKeyType
  <2> QED BY <1>1, <2>1 DEF Accepted
<1>2. ASSUME NEW s \in Shell, AddPlain(s) \/ Verify(s) \/ AddOnTerminal(s)
      PROVE  /\ accepted' \in [Key -> SUBSET (Line \cup {Absent})]
             /\ \A k \in Key : accepted[k] \subseteq accepted'[k]
  <2>1. pc[s] \notin Between
    BY <1>2 DEF AddPlain, Verify, AddOnTerminal, Goto, Between
  <2>2. CurrentKey(s) \in Key
    BY <2>1, CurrentKeyType
  <2>3. UNCHANGED accepted \/ \E p \in Line \cup {Absent} : Accepted(s, p)
    BY <1>2, <2>2 DEF AddPlain, Verify, AddOnTerminal
  <2> QED BY <1>1, <2>1, <2>3
<1>3. UNCHANGED accepted \/ \E s \in Shell : AddPlain(s) \/ Verify(s) \/ AddOnTerminal(s)
  BY DEF Move, Loader, Machine, Waits, Askpass, Snapshot, Dedup, GivenUp, ReadRecord, Prune, Lookup,
         Prompt, Stash, SetTimeout, HelperRead, HelperUnlink, AddFails, AddAbandoned,
         StorePassphrase, ClearGiveup, TruncateRecord, StampRecord, Broker, BrokerCalled,
         BrokerLookup, BrokerPrompt, Environment, Crash, KeyExpires, RecordExpires, Rekey,
         StashExpires
<1> QED BY <1>2, <1>3

\* The history variables keep their types.
LEMMA HistoryType ==
    ASSUME TypeInv, Move, Remember PROVE HistoryTypeOK'
<1>1. \A before \in [Shell -> SUBSET Key], now \in SUBSET Key :
        Since(before, now) \in [Shell -> SUBSET Key]
  BY DEF Since
<1>2. held' \in [Shell -> SUBSET Key]
  BY <1>1 DEF Remember, TypeInv, TypeOK, HistoryTypeOK
<1>3. filled' \in [Shell -> SUBSET Key]
  BY <1>1 DEF Remember, TypeInv, TypeOK, HistoryTypeOK
<1> QED BY <1>2, <1>3, AcceptedGrows DEF HistoryTypeOK

\* A step keeps the types.
LEMMA NextType == TypeInv /\ [Next]_vars => TypeInv'
<1>1. ASSUME TypeInv, Next PROVE TypeInv'
  <2>1. WorldTypeOK' /\ LoaderTypeOK' /\ \A t \in Shell : AtWork(t)' /\ AttemptsBounded(t)'
    BY <1>1, NextIsMove, LoaderKeepsWorld, LoaderKeepsTypes, OthersKeepTypes DEF Move
  <2>2. HistoryTypeOK'
    BY <1>1, NextIsMove, HistoryType
  <2> QED BY <2>1, <2>2 DEF TypeInv, TypeOK
<1>2. ASSUME TypeInv, UNCHANGED vars PROVE TypeInv'
  BY <1>2 DEF vars, world, records, keyring, locals, bounds, TypeInv, TypeOK, WorldTypeOK,
              LoaderTypeOK, HistoryTypeOK, AtWork, AttemptsBounded, max
<1> QED BY <1>1, <1>2

(* The type invariant of KeyLoader, among it that no shell tries a key     *)
(* more often than its settings allow and that only entries that are in    *)
(* the keyring are timed, for whatever the user wrote into the config file *)
(* and the environments.  (addWithRetries, Resolve.)                       *)
THEOREM LoaderTypeCorrect == Spec => []TypeOK
<1>1. Spec => []TypeInv
  BY InitType, NextType, PTL DEF Spec
<1> QED BY <1>1, PTL DEF TypeInv

(***************************************************************************)
(* Records and wallet entries.                                             *)
(***************************************************************************)

\* Only a shell that lets records expire prunes one.
PrunesExpired(s) == pc[s] = "prune" => Giveup(s) = "ttl"

\* Past the look at its key's record, and not yet at the next key.
Past(s) == pc[s] \notin {"snapshot", "dedup", "givenup", "done", "crashed"}

LeavesAlone(s) == DiskWorks /\ Past(s) /\ Giveup(s) # "off" => CurrentKey(s) \notin held[s]

(* What a shell is about to store is what ssh-add has accepted: the helper *)
(* got the passphrase of the shell or none, and only a shell on a bare     *)
(* terminal lets ssh-add ask for itself.                                   *)
StoresAccepted(s) ==
    /\ pc[s] = "tty" => s \notin Gui
    /\ pc[s] \in {"unlink", "verify"} => got[s] \in {pass[s], Absent}
    /\ pc[s] = "store" => pass[s] \in accepted[CurrentKey(s)]

LoaderInv ==
    TypeInv /\ \A s \in Shell : PrunesExpired(s) /\ LeavesAlone(s) /\ StoresAccepted(s)

(* The steps of others leave a shell's call as it is, or kill it.          *)
LEMMA CallStays ==
    ASSUME TypeInv, Move, NEW s \in Shell, ~ Loader(s)
    PROVE  /\ UNCHANGED <<todo[s], snap[s], attempt[s], pass[s], got[s], settings>>
           /\ pc'[s] \in {pc[s], "crashed"}
<1> USE DEF TypeInv, TypeOK, LoaderTypeOK, Goto, NextKey, world, locals
<1>1. ASSUME NEW t \in Shell, Loader(t)
      PROVE  /\ UNCHANGED <<todo[s], snap[s], attempt[s], pass[s], got[s], settings>>
             /\ pc'[s] \in {pc[s], "crashed"}
  <2>1. t # s
    BY <1>1
  <2> USE <2>1
  <2>2. CASE Snapshot(t)
    BY <2>2 DEF Snapshot
  <2>3. CASE Dedup(t)
    BY <2>3 DEF Dedup
  <2>4. CASE GivenUp(t)
    BY <2>4 DEF GivenUp, ReadRecord, StartAttempts
  <2>5. CASE Prune(t)
    BY <2>5 DEF Prune, StartAttempts
  <2>6. CASE Lookup(t) \/ Prompt(t)
    BY <2>6 DEF Lookup, Prompt
  <2>7. CASE Stash(t) \/ SetTimeout(t)
    BY <2>7 DEF Stash, SetTimeout
  <2>8. CASE AddPlain(t)
    BY <2>8 DEF AddPlain, Accepted
  <2>9. CASE HelperRead(t) \/ HelperUnlink(t)
    BY <2>9 DEF HelperRead, HelperUnlink
  <2>10. CASE Verify(t)
    BY <2>10 DEF Verify, Accepted, Refused
  <2>11. CASE AddFails(t)
    BY <2>11 DEF AddFails, Refused
  <2>12. CASE AddAbandoned(t)
    BY <2>12 DEF AddAbandoned
  <2>13. CASE AddOnTerminal(t)
    BY <2>13 DEF AddOnTerminal, Accepted, Refused
  <2>14. CASE StorePassphrase(t) \/ ClearGiveup(t)
    BY <2>14 DEF StorePassphrase, ClearGiveup
  <2>15. CASE TruncateRecord(t) \/ StampRecord(t)
    BY <2>15 DEF TruncateRecord, StampRecord
  <2> QED BY <1>1, <2>2, <2>3, <2>4, <2>5, <2>6, <2>7, <2>8, <2>9, <2>10, <2>11, <2>12, <2>13,
             <2>14, <2>15 DEF Loader, Machine, Waits, Askpass
<1>2. CASE \E c \in Ssh : Broker(c)
  BY <1>2 DEF Broker, BrokerCalled, BrokerLookup, BrokerPrompt
<1>3. CASE Environment
  BY <1>3 DEF Environment, Crash, KeyExpires, RecordExpires, Rekey, StashExpires
<1> QED BY <1>1, <1>2, <1>3 DEF Move

(* Its own steps leave the key at work while they do not end it, and the   *)
(* settings always.                                                        *)
LEMMA KeyStays ==
    ASSUME TypeInv, NEW s \in Shell, Loader(s)
    PROVE  /\ UNCHANGED settings
           /\ pc[s] # "dedup" /\ pc'[s] \notin {"dedup", "crashed"} => UNCHANGED todo
           /\ Past(s)' => Past(s) \/ GivenUp(s)
<1> USE DEF TypeInv, TypeOK, LoaderTypeOK, Goto, NextKey, world, locals, Past
<1>1. CASE Snapshot(s)
  BY <1>1 DEF Snapshot
<1>2. CASE Dedup(s)
  BY <1>2 DEF Dedup
<1>3. CASE GivenUp(s)
  BY <1>3 DEF GivenUp, ReadRecord, StartAttempts
<1>4. CASE Prune(s)
  BY <1>4 DEF Prune, StartAttempts
<1>5. CASE Lookup(s) \/ Prompt(s)
  BY <1>5 DEF Lookup, Prompt
<1>6. CASE Stash(s) \/ SetTimeout(s)
  BY <1>6 DEF Stash, SetTimeout
<1>7. CASE AddPlain(s)
  BY <1>7 DEF AddPlain, Accepted
<1>8. CASE HelperRead(s) \/ HelperUnlink(s)
  BY <1>8 DEF HelperRead, HelperUnlink
<1>9. CASE Verify(s)
  BY <1>9 DEF Verify, Accepted, Refused
<1>10. CASE AddFails(s)
  BY <1>10 DEF AddFails, Refused
<1>11. CASE AddAbandoned(s)
  BY <1>11 DEF AddAbandoned
<1>12. CASE AddOnTerminal(s)
  BY <1>12 DEF AddOnTerminal, Accepted, Refused
<1>13. CASE StorePassphrase(s) \/ ClearGiveup(s)
  BY <1>13 DEF StorePassphrase, ClearGiveup
<1>14. CASE TruncateRecord(s) \/ StampRecord(s)
  BY <1>14 DEF TruncateRecord, StampRecord
<1> QED BY <1>1, <1>2, <1>3, <1>4, <1>5, <1>6, <1>7, <1>8, <1>9, <1>10, <1>11, <1>12, <1>13, <1>14
        DEF Loader, Machine, Waits, Askpass

(* While a shell is loading, its history only shrinks, to what is so now.  *)
LEMMA SinceShrinks ==
    ASSUME NEW s \in Shell, NEW before, NEW now, Loading(s)'
    PROVE  /\ Since(before, now)[s] \subseteq now
           /\ Loading(s) => Since(before, now)[s] \subseteq before[s]
BY DEF Since

\* What a shell holds for given up is given up now, and only gets less.
LEMMA HeldShrinks ==
    ASSUME Remember, NEW s \in Shell, Past(s)'
    PROVE  /\ \A k \in held'[s] : record'[k] = "fresh"
           /\ Past(s) => held'[s] \subseteq held[s]
<1>1. Loading(s)'
  BY DEF Past, Loading
<1>2. Past(s) => Loading(s)
  BY DEF Past, Loading
<1> QED BY <1>1, <1>2, SinceShrinks DEF Remember

\* A fault once spent stays spent.
LEMMA SpentGrows == TypeInv /\ Move /\ spent' = 0 => spent = 0
BY BoundAssumption DEF TypeInv, TypeOK, WorldTypeOK, Fault, bounds, Move, Loader, Machine, Waits, Askpass, Snapshot,
   Dedup, GivenUp, ReadRecord, Prune, Lookup, Prompt, Stash, SetTimeout, AddPlain, HelperRead,
   HelperUnlink, Verify, AddFails, AddAbandoned, AddOnTerminal, StorePassphrase, ClearGiveup,
   TruncateRecord, StampRecord, Broker, BrokerCalled, BrokerLookup, BrokerPrompt, Environment,
   Crash, KeyExpires, RecordExpires, Rekey, StashExpires

\* A step lets no shell past the give-up check with a key held.
LEMMA NextLeavesAlone ==
    ASSUME LoaderInv, Move, Remember, NEW s \in Shell PROVE LeavesAlone(s)'
<1> SUFFICES ASSUME DiskWorks', Past(s)', Giveup(s)' # "off"
             PROVE  CurrentKey(s)' \notin held'[s]
  BY DEF LeavesAlone
<1>0. DiskWorks
  BY SpentGrows DEF LoaderInv, DiskWorks
<1>1. CASE ~ Loader(s)
  <2>1. pc'[s] = pc[s] /\ todo'[s] = todo[s] /\ UNCHANGED settings
    BY <1>1, CallStays DEF LoaderInv, Past
  <2>2. Past(s) /\ Giveup(s) # "off" /\ CurrentKey(s)' = CurrentKey(s)
    BY <2>1 DEF Past, Giveup, CurrentKey
  <2> QED BY <1>0, <2>2, HeldShrinks DEF LoaderInv, LeavesAlone
<1>2. CASE Loader(s)
  <2>1. UNCHANGED settings /\ (pc[s] # "dedup" => UNCHANGED todo)
    BY <1>2, KeyStays DEF LoaderInv, Past
  <2>2. Giveup(s) # "off"
    BY <2>1 DEF Giveup
  <2>3. CASE Past(s)
    <3>1. CurrentKey(s)' = CurrentKey(s)
      BY <2>1, <2>3 DEF CurrentKey, Past
    <3> QED BY <1>0, <3>1, <2>2, <2>3, HeldShrinks DEF LoaderInv, LeavesAlone
  <2>4. CASE GivenUp(s)
    <3>1. pc[s] = "givenup" /\ UNCHANGED record
      BY <2>4 DEF GivenUp, ReadRecord, world, records
    <3>2. CurrentKey(s)' = CurrentKey(s)
      BY <2>1, <3>1 DEF CurrentKey
    <3>3. pc'[s] \notin {"dedup", "crashed"}
      BY DEF Past
    <3>4. ~ Fault("disk")
      BY BoundAssumption DEF Fault, DiskWorks, LoaderInv, TypeInv, TypeOK, WorldTypeOK
    <3>5. record[CurrentKey(s)] # "fresh"
      BY <2>2, <2>4, <3>3, <3>4 DEF GivenUp, ReadRecord, RecordSeen, NextKey, LoaderInv, TypeInv,
                                    TypeOK, LoaderTypeOK
    <3> QED BY <3>1, <3>2, <3>5, HeldShrinks
  <2> QED BY <1>2, <2>3, <2>4, KeyStays DEF LoaderInv
<1> QED BY <1>1, <1>2

\* A step lets only shells with records that expire prune one.
LEMMA NextPrunesExpired ==
    ASSUME LoaderInv, Move, NEW s \in Shell PROVE PrunesExpired(s)'
<1> SUFFICES ASSUME pc'[s] = "prune" PROVE Giveup(s)' = "ttl"
  BY DEF PrunesExpired
<1>1. CASE ~ Loader(s)
  BY <1>1, CallStays DEF LoaderInv, PrunesExpired, Giveup
<1>2. CASE Loader(s)
  <2>1. UNCHANGED settings
    BY <1>2, KeyStays DEF LoaderInv
  <2>2. GivenUp(s)
    BY <1>2, <2>1 DEF LoaderInv, TypeInv, TypeOK, LoaderTypeOK, Loader, Machine, Waits, Askpass, Goto,
       NextKey, StartAttempts, Snapshot, Dedup, Prune, Lookup, Prompt, Stash, SetTimeout, AddPlain,
       HelperRead, HelperUnlink, Verify, Accepted, Refused, AskAgain, AddFails, AddAbandoned,
       AddOnTerminal, StorePassphrase, ClearGiveup, TruncateRecord, StampRecord
  <2>3. Giveup(s) = "ttl"
    BY <2>2 DEF GivenUp, ReadRecord, RecordSeen, Giveup, StartAttempts, NextKey, Goto, LoaderInv,
       TypeInv, TypeOK, LoaderTypeOK
  <2> QED BY <2>1, <2>3 DEF Giveup
<1> QED BY <1>1, <1>2

\* What a shell is about to store stays what ssh-add accepted.
LEMMA NextStoresAccepted ==
    ASSUME LoaderInv, Move, NEW s \in Shell PROVE StoresAccepted(s)'
<1> USE DEF LoaderInv, TypeInv, TypeOK, WorldTypeOK, LoaderTypeOK, HistoryTypeOK, StoresAccepted
<1>1. CASE ~ Loader(s)
  <2>1. /\ UNCHANGED <<todo[s], got[s], pass[s]>>
        /\ pc'[s] \in {pc[s], "crashed"}
    BY <1>1, CallStays
  <2>2. pc[s] = "store" => CurrentKey(s) \in Key
    BY CurrentKeyType DEF Between
  <2>3. pc[s] = "store" => accepted[CurrentKey(s)] \subseteq accepted'[CurrentKey(s)]
    BY <2>2, AcceptedGrows
  <2> QED BY <2>1, <2>3 DEF CurrentKey
<1>2. CASE Loader(s)
  <2> USE DEF Goto, NextKey, world, locals
  <2>1. CASE Snapshot(s) \/ Dedup(s)
    BY <2>1 DEF Snapshot, Dedup
  <2>2. CASE GivenUp(s) \/ Prune(s)
    BY <2>2 DEF GivenUp, ReadRecord, Prune, StartAttempts
  <2>3. CASE Lookup(s) \/ Prompt(s)
    BY <2>3 DEF Lookup, Prompt
  <2>4. CASE Stash(s) \/ SetTimeout(s)
    BY <2>4 DEF Stash, SetTimeout
  <2>5. CASE AddPlain(s) \/ Verify(s)
    <3>1. pc[s] \notin Between /\ CurrentKey(s) \in Key
      BY <2>5, CurrentKeyType DEF AddPlain, Verify, Between
    <3>2. secret[CurrentKey(s)] \in Line /\ Absent \notin Line
      BY <3>1, PassAssumption DEF Line
    <3>3. CASE Accepted(s, pass[s]) /\ UNCHANGED pass
      <4>1. pc'[s] = "store" => UNCHANGED todo
        BY <3>3 DEF Accepted
      <4>2. pass'[s] \in accepted'[CurrentKey(s)]
        BY <3>1, <3>3 DEF Accepted
      <4> QED BY <3>3, <4>1, <4>2 DEF Accepted, CurrentKey
    <3>4. CASE Refused(s) /\ UNCHANGED pass
      BY <3>4 DEF Refused, AskAgain
    <3> QED BY <2>5, <3>2, <3>3, <3>4 DEF AddPlain, Verify
  <2>6. CASE HelperRead(s)
    BY <2>6 DEF HelperRead
  <2>7. CASE HelperUnlink(s)
    BY <2>7 DEF HelperUnlink
  <2>8. CASE AddFails(s) \/ AddAbandoned(s)
    BY <2>8 DEF AddFails, AddAbandoned, Refused, AskAgain
  <2>9. CASE AddOnTerminal(s)
    BY <2>9 DEF AddOnTerminal, Accepted, Refused, AskAgain
  <2>10. CASE StorePassphrase(s) \/ ClearGiveup(s)
    BY <2>10 DEF StorePassphrase, ClearGiveup
  <2>11. CASE TruncateRecord(s) \/ StampRecord(s)
    BY <2>11 DEF TruncateRecord, StampRecord
  <2> QED BY <1>2, <2>1, <2>2, <2>3, <2>4, <2>5, <2>6, <2>7, <2>8, <2>9, <2>10, <2>11
          DEF Loader, Machine, Waits, Askpass
<1> QED BY <1>1, <1>2

\* The invariant of the loader, in every behaviour.
LEMMA LoaderInvariant == Spec => []LoaderInv
<1>1. Init => LoaderInv
  <2> SUFFICES ASSUME Init PROVE LoaderInv
    OBVIOUS
  <2>1. \A s \in Shell : pc[s] = "snapshot"
    BY DEF Init
  <2> QED BY <2>1, InitType DEF LoaderInv, PrunesExpired, LeavesAlone, Past, StoresAccepted
<1>2. LoaderInv /\ [Next]_vars => LoaderInv'
  <2>1. ASSUME LoaderInv, Next PROVE LoaderInv'
    <3>1. Move /\ Remember
      BY <2>1, NextIsMove
    <3>2. TypeInv'
      BY <2>1, NextType DEF LoaderInv
    <3> QED BY <2>1, <3>1, <3>2, NextLeavesAlone, NextPrunesExpired, NextStoresAccepted DEF LoaderInv
  <2>2. ASSUME LoaderInv, UNCHANGED vars PROVE LoaderInv'
    <3>1. TypeInv'
      BY <2>2, NextType DEF LoaderInv
    <3> QED BY <2>2, <3>1 DEF LoaderInv, vars, world, records, keyring, locals, bounds, DiskWorks, PrunesExpired,
            LeavesAlone, Past, StoresAccepted, Giveup, CurrentKey
  <2> QED BY <2>1, <2>2
<1> QED BY <1>1, <1>2, PTL DEF Spec

(* A shell tries no key that was given up, with a record that counted,     *)
(* from before its snapshot on, whatever other shells do to the records.   *)
(* (loadOne, giveup.GivenUp.)                                              *)
THEOREM ShellsLeaveGivenUpAlone == Spec => []GivenUpIsLeftAlone
<1>1. LoaderInv => GivenUpIsLeftAlone
  BY DEF LoaderInv, LeavesAlone, Past, GivenUpIsLeftAlone
<1> QED BY <1>1, LoaderInvariant, PTL

\* The two ways in which an entry of the wallet changes.
LEMMA WhoStores ==
    ASSUME TypeInv, Move, NEW k \in Key, wallet'[k] # wallet[k]
    PROVE  \/ \E s \in Shell : StorePassphrase(s) /\ k = CurrentKey(s) /\ wallet'[k] = pass[s]
           \/ \E c \in Ssh : BrokerPrompt(c)
<1> USE DEF TypeInv, TypeOK, WorldTypeOK
<1>1. \/ \E s \in Shell : StorePassphrase(s)
      \/ \E c \in Ssh : BrokerPrompt(c)
  BY DEF Move, Loader, Machine, Waits, Askpass, Snapshot, Dedup, GivenUp, ReadRecord, Prune, Lookup,
     Prompt, Stash, SetTimeout, AddPlain, HelperRead, HelperUnlink, Verify, AddFails,
     AddAbandoned, AddOnTerminal, ClearGiveup, TruncateRecord, StampRecord, Broker,
     BrokerCalled, BrokerLookup, Environment, Crash, KeyExpires, RecordExpires, Rekey,
     StashExpires, world
<1>2. ASSUME NEW s \in Shell, StorePassphrase(s)
      PROVE  k = CurrentKey(s) /\ wallet'[k] = pass[s]
  BY <1>2 DEF StorePassphrase
<1> QED BY <1>1, <1>2

(* What a loader puts into the wallet has opened that key: no loader       *)
(* stores a typing error, and only a broker replaces an entry unverified.  *)
(* (loadViaVaultThenPrompt, storePassphrase.)                              *)
THEOREM LoadersStoreAccepted == Spec => LoaderStoresAccepted
<1> DEFINE Store(k) ==
      wallet'[k] # wallet[k] =>
        \/ wallet'[k] \in accepted[k]
        \/ \E c \in Ssh : ask[c][1] = "prompt" /\ ask'[c][1] = "done"
<1>1. ASSUME LoaderInv, Next, NEW k \in Key PROVE Store(k)
  <2> SUFFICES ASSUME wallet'[k] # wallet[k]
               PROVE  \/ wallet'[k] \in accepted[k]
                      \/ \E c \in Ssh : ask[c][1] = "prompt" /\ ask'[c][1] = "done"
    OBVIOUS
  <2>1. CASE \E s \in Shell : StorePassphrase(s) /\ k = CurrentKey(s) /\ wallet'[k] = pass[s]
    BY <1>1, <2>1 DEF LoaderInv, StoresAccepted, StorePassphrase, Goto
  <2>2. CASE \E c \in Ssh : BrokerPrompt(c)
    BY <1>1, <2>2 DEF BrokerPrompt, AskGoto, LoaderInv, TypeInv, TypeOK, WorldTypeOK
  <2> QED BY <1>1, <2>1, <2>2, NextIsMove, WhoStores DEF LoaderInv
<1>2. LoaderInv /\ [Next]_vars => [\A k \in Key : Store(k)]_vars
  BY <1>1
<1> QED BY <1>2, LoaderInvariant, PTL DEF Spec, LoaderStoresAccepted

(* Where every shell keeps its records for good, or keeps none, a record   *)
(* goes only when its key has been added: no interleaving of looks,        *)
(* records and clears loses one.  (giveup.go, GivenUp with a TTL of zero.) *)
THEOREM NeverExpiringRecordsStay == Spec => NeverExpiringStays
<1> DEFINE Stay(k) ==
      (\A s \in Shell : Giveup(s) # "ttl") /\ record[k] # "none" /\ record'[k] = "none"
        => ClearedBySuccess(k)
<1>1. ASSUME LoaderInv, Next, NEW k \in Key PROVE Stay(k)
  <2> SUFFICES ASSUME \A s \in Shell : Giveup(s) # "ttl", record[k] # "none", record'[k] = "none"
               PROVE  ClearedBySuccess(k)
    OBVIOUS
  <2> USE DEF LoaderInv, TypeInv, TypeOK, WorldTypeOK, LoaderTypeOK
  <2>1. Move
    BY <1>1, NextIsMove
  <2>2. \E s \in Shell : Prune(s) \/ ClearGiveup(s) \/ TruncateRecord(s) \/ StampRecord(s)
    BY <1>1, <2>1 DEF Move, Loader, Machine, Waits, Askpass, Snapshot, Dedup, GivenUp, ReadRecord,
       Lookup, Prompt, Stash, SetTimeout, AddPlain, HelperRead, HelperUnlink, Verify, AddFails,
       AddAbandoned, AddOnTerminal, StorePassphrase, Broker, BrokerCalled, BrokerLookup,
       BrokerPrompt, Environment, Crash, KeyExpires, RecordExpires, Rekey, StashExpires, world,
       records
  <2>3. ASSUME NEW s \in Shell, Prune(s) PROVE FALSE
    BY <1>1, <2>3 DEF Prune, PrunesExpired
  <2>4. ASSUME NEW s \in Shell, TruncateRecord(s) \/ StampRecord(s) PROVE FALSE
    BY <1>1, <2>4 DEF TruncateRecord, StampRecord, records
  <2>5. ASSUME NEW s \in Shell, ClearGiveup(s) PROVE ClearedBySuccess(k)
    <3>1. pc[s] = "clear" /\ CurrentKey(s) = k
      BY <1>1, <2>5 DEF ClearGiveup, RemoveRecord, records
    <3>2. pc'[s] # "clear"
      BY <1>1, <2>5 DEF ClearGiveup, NextKey
    <3> QED BY <3>1, <3>2 DEF ClearedBySuccess
  <2> QED BY <2>2, <2>3, <2>4, <2>5
<1>2. LoaderInv /\ [Next]_vars => [\A k \in Key : Stay(k)]_vars
  BY <1>1
<1> QED BY <1>2, LoaderInvariant, PTL DEF Spec, NeverExpiringStays

(***************************************************************************)
(* Silent refills.                                                         *)
(***************************************************************************)

\* A shell has not begun to try its first key.
Fresh == {"snapshot", "dedup", "givenup", "prune", "lookup"}

(* The entries a shell has put into the keyring for the keys it is not     *)
(* done with are of earlier attempts at the key at work, or of this one    *)
(* once it is made: the next one has a new name.                           *)
EntriesOld(s) ==
    \A e \in stash :
        e[1] = s /\ e[2] \in todo[s] =>
            /\ pc[s] \notin Fresh
            /\ e[2] = CurrentKey(s) /\ e[3] <= attempt[s]
            /\ pc[s] \in {"prompt", "tty", "stash"} => e[3] < attempt[s]

EntryInv(s) == EntriesOld(s) /\ (pc[s] = "timeout" => CurrentEntry(s) \in stash \ timed)

Trying == {"prompt", "stash", "timeout"} \cup AskpassSteps

(* A shell at work on a key whose passphrase the wallet has held all along *)
(* tries the stored passphrase, which is still the right one, and neither  *)
(* it nor its entry has been lost on the way to ssh-add.                   *)
Refills(s) ==
    spent = 0 /\ pc[s] \in Trying /\ CurrentKey(s) \in filled[s] =>
        /\ pc[s] # "prompt"
        /\ attempt[s] = 0 /\ pass[s] = secret[CurrentKey(s)]
        /\ pc[s] = "ask" => CurrentEntry(s) \in stash
        /\ pc[s] \in {"unlink", "verify"} => got[s] = pass[s]

FilledNow(s) == \A k \in filled[s] : Usable(wallet[k]) /\ wallet[k] = secret[k]

RefillInv ==
    /\ LoaderInv
    /\ \A s \in Shell : EntryInv(s) /\ Refills(s) /\ FilledNow(s)
    /\ \A s \in Shell : pc[s] = "lookup" => attempt[s] = 0

\* A shell about to make the next entry.
Asking == {"prompt", "tty", "stash"}

\* A step that adds no entry and goes on with the key at work.
SameKey(s) ==
    /\ todo'[s] = todo[s] /\ stash' \subseteq stash
    /\ pc'[s] # "timeout"
    /\ \/ pc[s] \in Fresh
       \/ /\ pc'[s] \notin Fresh /\ attempt[s] <= attempt'[s]
          /\ pc'[s] \in Asking => pc[s] \in Asking \/ attempt[s] < attempt'[s]

\* A step that stays at the key writes no entry of a later attempt.
LEMMA SameKeyEntries ==
    ASSUME RefillInv, NEW s \in Shell, SameKey(s), attempt'[s] \in Nat PROVE EntryInv(s)'
<1>1. EntriesOld(s) /\ attempt[s] \in Nat
  BY DEF RefillInv, EntryInv, LoaderInv, TypeInv, TypeOK, LoaderTypeOK
<1>2. stash \subseteq Entry
  BY DEF RefillInv, LoaderInv, TypeInv, TypeOK, WorldTypeOK
<1>3. \A e \in stash : e[3] \in Nat
  BY <1>2, AttemptsAssumption DEF Entry
<1>4. EntriesOld(s)'
  <2> SUFFICES ASSUME NEW e \in stash', e[1] = s, e[2] \in todo'[s]
               PROVE  /\ pc'[s] \notin Fresh
                      /\ e[2] = CurrentKey(s)' /\ e[3] <= attempt'[s]
                      /\ pc'[s] \in {"prompt", "tty", "stash"} => e[3] < attempt'[s]
    BY DEF EntriesOld
  <2>1. e \in stash /\ e[2] \in todo[s] /\ CurrentKey(s)' = CurrentKey(s)
    BY DEF SameKey, CurrentKey
  <2>2. /\ pc[s] \notin Fresh
        /\ e[2] = CurrentKey(s) /\ e[3] <= attempt[s]
        /\ pc[s] \in Asking => e[3] < attempt[s]
    BY <1>1, <2>1 DEF EntriesOld, Asking
  <2> QED BY <1>1, <1>3, <2>1, <2>2 DEF SameKey, Asking
<1> QED BY <1>4 DEF EntryInv, SameKey

\* A step that leaves a key leaves no entry of the next one.
LEMMA NextKeyEntries ==
    ASSUME RefillInv, NEW s \in Shell, NextKey(s), stash' \subseteq stash PROVE EntryInv(s)'
<1>1. /\ pc'[s] \in {"dedup", "crashed"}
      /\ todo'[s] = todo[s] \ {CurrentKey(s)}
  BY DEF NextKey, RefillInv, LoaderInv, TypeInv, TypeOK, LoaderTypeOK
<1>2. EntriesOld(s)
  BY DEF RefillInv, EntryInv
<1>3. \A e \in stash' : ~ (e[1] = s /\ e[2] \in todo'[s])
  BY <1>1, <1>2 DEF EntriesOld
<1> QED BY <1>1, <1>3 DEF EntryInv, EntriesOld

\* The keyring entry that is stashed is the one of this attempt.
LEMMA StashEntries ==
    ASSUME RefillInv, NEW s \in Shell, Goto(s, "stash", "timeout"),
           stash' = stash \cup {CurrentEntry(s)}, UNCHANGED <<todo, attempt, timed>>
    PROVE  EntryInv(s)'
<1> USE DEF RefillInv, LoaderInv, TypeInv, TypeOK, WorldTypeOK, LoaderTypeOK
<1>1. CurrentKey(s) \in todo[s] /\ attempt[s] \in Nat
  BY CurrentKeyType DEF Goto, Between
<1>2. CurrentEntry(s) \notin stash
  BY <1>1 DEF EntryInv, EntriesOld, Goto, CurrentEntry
<1>3. CurrentKey(s)' = CurrentKey(s) /\ CurrentEntry(s)' = CurrentEntry(s)
  BY DEF CurrentKey, CurrentEntry
<1>4. pc'[s] = "timeout" /\ pc[s] = "stash"
  BY DEF Goto
<1>5. EntriesOld(s)'
  <2> SUFFICES ASSUME NEW e \in stash', e[1] = s, e[2] \in todo'[s]
               PROVE  e[2] = CurrentKey(s) /\ e[3] <= attempt[s]
    BY <1>3, <1>4 DEF EntriesOld, Fresh
  <2>1. CASE e \in stash
    BY <2>1 DEF EntryInv, EntriesOld
  <2>2. CASE e = CurrentEntry(s)
    BY <1>1, <2>2 DEF CurrentEntry
  <2> QED BY <2>1, <2>2
<1> QED BY <1>2, <1>3, <1>5 DEF EntryInv

\* The loader's own steps keep its entries its own.
LEMMA OwnStepEntries ==
    ASSUME RefillInv, NEW s \in Shell, Loader(s) PROVE EntryInv(s)'
<1>1. attempt'[s] \in Nat
  BY LoaderKeepsTypes DEF RefillInv, LoaderInv, LoaderTypeOK
<1>2. SameKey(s) \/ (NextKey(s) /\ stash' \subseteq stash) \/ Stash(s) \/ SetTimeout(s)
  <2> USE DEF RefillInv, LoaderInv, TypeInv, TypeOK, WorldTypeOK, LoaderTypeOK, SameKey, Fresh, Asking,
              Goto, world, keyring, locals
  <2>1. CASE Snapshot(s) \/ Dedup(s)
    BY <2>1 DEF Snapshot, Dedup
  <2>2. CASE GivenUp(s) \/ Prune(s)
    BY <2>2 DEF GivenUp, ReadRecord, Prune, StartAttempts
  <2>3. CASE Lookup(s) \/ Prompt(s)
    BY <2>3 DEF Lookup, Prompt
  <2>4. CASE AddPlain(s)
    BY <2>4 DEF AddPlain, Accepted
  <2>5. CASE HelperRead(s) \/ HelperUnlink(s)
    BY <2>5 DEF HelperRead, HelperUnlink
  <2>6. CASE Verify(s)
    BY <2>6 DEF Verify, Accepted, Refused, AskAgain
  <2>7. CASE AddFails(s) \/ AddAbandoned(s)
    BY <2>7 DEF AddFails, AddAbandoned, Refused, AskAgain
  <2>8. CASE AddOnTerminal(s)
    BY <2>8 DEF AddOnTerminal, Accepted, Refused, AskAgain
  <2>9. CASE StorePassphrase(s) \/ ClearGiveup(s)
    BY <2>9 DEF StorePassphrase, ClearGiveup
  <2>10. CASE TruncateRecord(s) \/ StampRecord(s)
    BY <2>10 DEF TruncateRecord, StampRecord
  <2> QED BY <2>1, <2>2, <2>3, <2>4, <2>5, <2>6, <2>7, <2>8, <2>9, <2>10
          DEF Loader, Machine, Waits, Askpass
<1>3. CASE Stash(s)
  <2>1. CASE NextKey(s) /\ UNCHANGED stash
    BY <2>1, NextKeyEntries
  <2>2. CASE Goto(s, "stash", "timeout") /\ stash' = stash \cup {CurrentEntry(s)} /\ UNCHANGED todo
    BY <1>3, <2>2, StashEntries DEF Stash, locals
  <2> QED BY <1>3, <2>1, <2>2 DEF Stash
<1>4. CASE SetTimeout(s)
  <2>1. SameKey(s)
    BY <1>4 DEF SetTimeout, SameKey, Fresh, Asking, Goto, locals, RefillInv, LoaderInv, TypeInv,
                TypeOK, LoaderTypeOK
  <2> QED BY <1>1, <2>1, SameKeyEntries
<1> QED BY <1>1, <1>2, <1>3, <1>4, SameKeyEntries, NextKeyEntries

(* Others add no entry of this shell, and take the one at work only when a *)
(* fault lets it expire.                                                   *)
LEMMA OthersLeaveEntries ==
    ASSUME RefillInv, Move, NEW s \in Shell, ~ Loader(s)
    PROVE  /\ \A e \in stash' : e[1] = s => e \in stash
           /\ \A e \in timed' : e[1] = s => e \in timed
           /\ pc[s] \in {"timeout", "ask"} /\ CurrentEntry(s) \in stash /\ spent' = 0 =>
                CurrentEntry(s) \in stash'
           /\ pc[s] = "timeout" /\ CurrentEntry(s) \in stash \ timed => CurrentEntry(s) \in stash'
<1> USE DEF RefillInv, LoaderInv, TypeInv, TypeOK, WorldTypeOK, world, keyring
<1>1. UNCHANGED keyring \/ (\E t \in Shell : t # s /\ (Stash(t) \/ SetTimeout(t) \/ HelperUnlink(t)))
        \/ (\E e \in timed : StashExpires(e))
  BY DEF Move, Loader, Machine, Waits, Askpass, Snapshot, Dedup, GivenUp, ReadRecord, Prune, Lookup,
     Prompt, AddPlain, HelperRead, Verify, AddFails, AddAbandoned, AddOnTerminal,
     StorePassphrase, ClearGiveup, TruncateRecord, StampRecord, Broker, BrokerCalled,
     BrokerLookup, BrokerPrompt, Environment, Crash, KeyExpires, RecordExpires, Rekey
<1>2. CASE UNCHANGED keyring
  BY <1>2
<1>3. ASSUME NEW t \in Shell, t # s, Stash(t) \/ SetTimeout(t) \/ HelperUnlink(t)
      PROVE  /\ \A e \in stash' : e[1] = s => e \in stash
             /\ \A e \in timed' : e[1] = s => e \in timed
             /\ CurrentEntry(s) \in stash => CurrentEntry(s) \in stash'
  BY <1>3 DEF Stash, SetTimeout, HelperUnlink, CurrentEntry
<1>4. ASSUME NEW e \in timed, StashExpires(e)
      PROVE  /\ stash' = stash \ {e} /\ timed' \subseteq timed
             /\ pc[s] = "ask" /\ CurrentEntry(s) = e => spent' # 0
  <2>1. stash' = stash \ {e} /\ timed' \subseteq timed
    BY <1>4 DEF StashExpires
  <2>2. pc[s] = "ask" /\ CurrentEntry(s) = e => e[1] = s
    BY DEF CurrentEntry
  <2>3. pc[s] = "ask" /\ CurrentEntry(s) = e => spent' # 0
    BY <1>4, <2>2 DEF StashExpires, AskpassSteps, Fault
  <2> QED BY <2>1, <2>3
<1>5. pc[s] = "timeout" => CurrentEntry(s) \notin timed
  BY DEF EntryInv
<1> QED BY <1>1, <1>2, <1>3, <1>4, <1>5

\* So does every other step.
LEMMA NextEntries ==
    ASSUME RefillInv, Move, NEW s \in Shell PROVE EntryInv(s)'
<1>1. CASE ~ Loader(s)
  <2>1. /\ UNCHANGED <<todo[s], attempt[s]>>
        /\ pc'[s] \in {pc[s], "crashed"}
    BY <1>1, CallStays DEF RefillInv, LoaderInv
  <2>2. CurrentKey(s)' = CurrentKey(s) /\ CurrentEntry(s)' = CurrentEntry(s)
    BY <2>1 DEF CurrentKey, CurrentEntry
  <2>3. EntryInv(s)
    BY DEF RefillInv
  <2>4. EntriesOld(s)'
    BY <1>1, <2>1, <2>2, <2>3, OthersLeaveEntries DEF EntryInv, EntriesOld, Fresh
  <2>5. CurrentEntry(s)[1] = s
    BY DEF CurrentEntry
  <2>6. pc'[s] = "timeout" => CurrentEntry(s)' \in stash' \ timed'
    BY <1>1, <2>1, <2>2, <2>3, <2>5, OthersLeaveEntries DEF EntryInv
  <2> QED BY <2>4, <2>6 DEF EntryInv
<1> QED BY <1>1, OwnStepEntries

\* A filled key has its right passphrase in the wallet now.
LEMMA NextFilledNow ==
    ASSUME Remember, NEW s \in Shell PROVE FilledNow(s)'
<1>1. CASE Loading(s)'
  BY <1>1, SinceShrinks DEF Remember, FilledNow, Usable
<1>2. CASE ~ Loading(s)'
  <2>1. filled'[s] = {}
    BY <1>2 DEF Remember, Since
  <2> QED BY <2>1 DEF FilledNow
<1> QED BY <1>1, <1>2

\* The wallet is asked in attempt 0.
LEMMA NextLookupFirst ==
    ASSUME RefillInv, Move, NEW s \in Shell, pc'[s] = "lookup" PROVE attempt'[s] = 0
<1> USE DEF RefillInv, LoaderInv, TypeInv, TypeOK, LoaderTypeOK
<1>1. CASE ~ Loader(s)
  BY <1>1, CallStays
<1>2. CASE Loader(s)
  <2>1. GivenUp(s) \/ Prune(s)
    BY <1>2 DEF Loader, Machine, Waits, Askpass, Goto, NextKey, Snapshot, Dedup, Lookup, Prompt, Stash,
       SetTimeout, AddPlain, HelperRead, HelperUnlink, Verify, Accepted, Refused, AskAgain,
       AddFails, AddAbandoned, AddOnTerminal, StorePassphrase, ClearGiveup, TruncateRecord,
       StampRecord
  <2> QED BY <2>1 DEF GivenUp, ReadRecord, Prune, StartAttempts, Goto, NextKey
<1> QED BY <1>1, <1>2

(* While nothing fails, a key that is still filled has been so before the  *)
(* step, and neither its passphrase nor the wallet's has changed.          *)
LEMMA FilledKeeps ==
    ASSUME RefillInv, Move, Remember, NEW s \in Shell, Loading(s), Loading(s)',
           NEW k \in filled'[s]
    PROVE  k \in filled[s] /\ Usable(wallet[k]) /\ wallet[k] = secret[k] /\ secret'[k] = secret[k]
<1> USE DEF RefillInv, LoaderInv, TypeInv, TypeOK, WorldTypeOK, HistoryTypeOK
<1>1. k \in filled[s] /\ Usable(wallet'[k]) /\ wallet'[k] = secret'[k]
  BY SinceShrinks DEF Remember
<1>2. Usable(wallet[k]) /\ wallet[k] = secret[k]
  BY <1>1 DEF FilledNow
<1>3. UNCHANGED secret \/ \E l \in Key : Rekey(l)
  BY DEF Move, Loader, Machine, Waits, Askpass, Snapshot, Dedup, GivenUp, ReadRecord, Prune, Lookup,
     Prompt, Stash, SetTimeout, AddPlain, HelperRead, HelperUnlink, Verify, AddFails,
     AddAbandoned, AddOnTerminal, StorePassphrase, ClearGiveup, TruncateRecord, StampRecord,
     Broker, BrokerCalled, BrokerLookup, BrokerPrompt, Environment, Crash, KeyExpires,
     RecordExpires, StashExpires, world
<1>4. ASSUME NEW l \in Key, Rekey(l) PROVE secret'[k] = secret[k]
  <2>1. wallet'[k] = wallet[k]
    BY <1>4 DEF Rekey
  <2> QED BY <1>1, <1>2, <2>1
<1> QED BY <1>1, <1>2, <1>3, <1>4

(* One step of the shell itself: the stored passphrase goes from the       *)
(* wallet through the keyring and the helper to ssh-add, which accepts it. *)
LEMMA OwnStepRefills ==
    ASSUME RefillInv, NEW s \in Shell, Loader(s), pc'[s] \in Trying, spent = 0, spent' = 0,
           UNCHANGED todo, NEW k, k = CurrentKey(s), k \in filled[s],
           Usable(wallet[k]), wallet[k] = secret[k]
    PROVE  /\ pc'[s] # "prompt"
           /\ attempt'[s] = 0 /\ pass'[s] = secret[k]
           /\ pc'[s] = "ask" => CurrentEntry(s)' \in stash'
           /\ pc'[s] \in {"unlink", "verify"} => got'[s] = pass'[s]
<1> USE DEF RefillInv, LoaderInv, TypeInv, TypeOK, WorldTypeOK, LoaderTypeOK, Trying, AskpassSteps,
            Goto, NextKey, world, locals
<1>1. Refills(s) /\ (pc[s] = "lookup" => attempt[s] = 0)
  OBVIOUS
<1>2. ~ Fault("slow") /\ ~ Fault("lookup") /\ ~ Fault("agent")
  BY DEF Fault
<1>3. CASE Snapshot(s) \/ Dedup(s)
  BY <1>3 DEF Snapshot, Dedup
<1>4. CASE GivenUp(s) \/ Prune(s)
  BY <1>4 DEF GivenUp, ReadRecord, Prune, StartAttempts
<1>5. CASE Lookup(s)
  BY <1>1, <1>2, <1>5 DEF Lookup
<1>6. CASE Prompt(s)
  BY <1>1, <1>6 DEF Prompt, Refills
<1>7. CASE Stash(s)
  BY <1>1, <1>7 DEF Stash, Refills
<1>8. CASE SetTimeout(s)
  <2>1. CurrentEntry(s) \in stash
    BY <1>8 DEF SetTimeout, EntryInv
  <2>2. CurrentEntry(s)' = CurrentEntry(s)
    BY <1>8 DEF SetTimeout, CurrentEntry, CurrentKey
  <2> QED BY <1>1, <1>8, <2>1, <2>2 DEF SetTimeout, Refills
<1>9. CASE HelperRead(s)
  BY <1>1, <1>9 DEF HelperRead, Refills
<1>10. CASE HelperUnlink(s)
  BY <1>1, <1>10 DEF HelperUnlink, Refills
<1>11. CASE AddPlain(s)
  BY <1>11 DEF AddPlain, Accepted
<1>12. CASE Verify(s)
  <2>1. got[s] = secret[k]
    BY <1>1, <1>12 DEF Verify, Refills
  <2>2. Accepted(s, got[s])
    BY <1>12, <2>1 DEF Verify
  <2> QED BY <2>2 DEF Accepted
<1>13. CASE AddFails(s)
  BY <1>2, <1>13 DEF AddFails
<1>14. CASE AddAbandoned(s)
  BY <1>14 DEF AddAbandoned
<1>15. CASE AddOnTerminal(s)
  BY <1>15 DEF AddOnTerminal, Accepted, Refused, AskAgain, StoresAccepted
<1>16. CASE StorePassphrase(s) \/ ClearGiveup(s)
  BY <1>16 DEF StorePassphrase, ClearGiveup
<1>17. CASE TruncateRecord(s) \/ StampRecord(s)
  BY <1>17 DEF TruncateRecord, StampRecord
<1> QED BY <1>3, <1>4, <1>5, <1>6, <1>7, <1>8, <1>9, <1>10, <1>11, <1>12, <1>13, <1>14, <1>15,
           <1>16, <1>17 DEF Loader, Machine, Waits, Askpass

\* A step leads a filled key through the wallet, never to a prompt.
LEMMA NextRefills ==
    ASSUME RefillInv, Move, Remember, NEW s \in Shell PROVE Refills(s)'
<1> SUFFICES ASSUME spent' = 0, pc'[s] \in Trying, CurrentKey(s)' \in filled'[s]
             PROVE  /\ pc'[s] # "prompt"
                    /\ attempt'[s] = 0 /\ pass'[s] = secret'[CurrentKey(s)']
                    /\ pc'[s] = "ask" => CurrentEntry(s)' \in stash'
                    /\ pc'[s] \in {"unlink", "verify"} => got'[s] = pass'[s]
  BY DEF Refills
<1>1. spent = 0
  BY SpentGrows DEF RefillInv, LoaderInv
<1>2. Loading(s)'
  BY DEF Loading, Trying, AskpassSteps
<1>3. CASE ~ Loader(s)
  <2>1. /\ UNCHANGED <<todo[s], attempt[s], pass[s], got[s]>>
        /\ pc'[s] = pc[s]
    BY <1>3, CallStays DEF RefillInv, LoaderInv, Trying, AskpassSteps
  <2>2. CurrentKey(s)' = CurrentKey(s) /\ CurrentEntry(s)' = CurrentEntry(s)
    BY <2>1 DEF CurrentKey, CurrentEntry
  <2>3. Loading(s)
    BY <2>1 DEF Loading, Trying, AskpassSteps
  <2>4. CurrentKey(s) \in filled[s] /\ secret'[CurrentKey(s)] = secret[CurrentKey(s)]
    BY <1>2, <2>2, <2>3, FilledKeeps
  <2>5. Refills(s)
    BY DEF RefillInv
  <2>6. pc[s] = "ask" => CurrentEntry(s) \in stash'
    BY <1>1, <1>3, <2>1, <2>4, <2>5, OthersLeaveEntries DEF Refills
  <2> QED BY <1>1, <2>1, <2>2, <2>4, <2>5, <2>6 DEF Refills
<1>4. CASE Loader(s)
  <2>1. Past(s)'
    BY DEF Past, Trying, AskpassSteps
  <2>2. Past(s) \/ pc[s] = "givenup"
    BY <1>4, <2>1, KeyStays DEF RefillInv, LoaderInv, GivenUp, ReadRecord
  <2>3. Loading(s) /\ UNCHANGED todo
    BY <1>4, <2>1, <2>2, KeyStays DEF RefillInv, LoaderInv, Past, Loading
  <2>4. CurrentKey(s)' = CurrentKey(s)
    BY <2>3 DEF CurrentKey
  <2>5. /\ CurrentKey(s) \in filled[s] /\ Usable(wallet[CurrentKey(s)])
        /\ wallet[CurrentKey(s)] = secret[CurrentKey(s)]
        /\ secret'[CurrentKey(s)] = secret[CurrentKey(s)]
    BY <1>2, <2>3, <2>4, FilledKeeps
  <2> QED BY <1>1, <1>4, <2>3, <2>4, <2>5, OwnStepRefills
<1> QED BY <1>3, <1>4

\* The invariant behind silent refills, in every behaviour.
LEMMA RefillInvariant == Spec => []RefillInv
<1>1. Init => RefillInv
  <2> SUFFICES ASSUME Init PROVE RefillInv
    OBVIOUS
  <2>1. LoaderInv
    <3>1. \A s \in Shell : pc[s] = "snapshot"
      BY DEF Init
    <3> QED BY <3>1, InitType DEF LoaderInv, PrunesExpired, LeavesAlone, Past, StoresAccepted
  <2> QED BY <2>1 DEF Init, RefillInv, EntryInv, EntriesOld, Refills, Trying, AskpassSteps, FilledNow
<1>2. LoaderInv /\ LoaderInv' /\ RefillInv /\ [Next]_vars => RefillInv'
  <2>1. ASSUME LoaderInv', RefillInv, Next PROVE RefillInv'
    BY <2>1, NextIsMove, NextEntries, NextRefills, NextFilledNow, NextLookupFirst DEF RefillInv
  <2>2. ASSUME LoaderInv', RefillInv, UNCHANGED vars PROVE RefillInv'
    BY <2>2 DEF RefillInv, vars, world, keyring, locals, bounds, EntryInv, EntriesOld, Refills,
            FilledNow, CurrentKey, CurrentEntry
  <2> QED BY <2>1, <2>2
<1> QED BY <1>1, <1>2, LoaderInvariant, PTL DEF Spec

(* A shell does not ask for a passphrase that the wallet has held all      *)
(* along, unless something fails: however many shells load the key at      *)
(* once, each one's entry reaches its own ssh-add.  (PLAN.md:508;          *)
(* AddWithAskpass, askpassFromKeyring.)                                    *)
THEOREM RefillsAreSilent == Spec => []SilentRefill
<1>1. RefillInv => SilentRefill
  BY DEF RefillInv, Refills, SilentRefill, Trying
<1> QED BY <1>1, RefillInvariant, PTL
=============================================================================
