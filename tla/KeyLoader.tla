----------------------------- MODULE KeyLoader ------------------------------
(***************************************************************************)
(* internal/keys and internal/giveup: how the shells of one login, each    *)
(* running `sshakku load-keys`, put the user's keys into the agent, and    *)
(* how the askpass broker answers an ssh that needs one in between.        *)
(*                                                                         *)
(* The processes share the agent, the wallet (the secret store), the       *)
(* give-up records and the kernel keyring, and hold no lock: a step is one *)
(* read or one change of one of these, so a shell acts on what it read     *)
(* some steps ago.                                                         *)
(***************************************************************************)
EXTENDS Settings, FiniteSetsExt

CONSTANTS
    Shell,          \* the shells; each runs load-keys once
    Ssh,            \* ssh clients with a key to unlock, served by the broker
    Gui,            \* the shells that have a graphical prompter
    Key,            \* the key files, numbered in directory order
    Opaque,         \* those that ssh-keygen cannot fingerprint
    Pass,           \* passphrases
    Blank,          \* an empty or all-space line: not a member of Pass
    Absent,         \* no entry, no value: not a member of Pass
    ConfigFile,     \* the config file, which all shells read
    Environs,       \* the environments the shells have: functions of Shell
    MaxAttempts,    \* bound: no shell allows a key more attempts
    Faults,         \* the kinds of fault that may strike
    MaxFaults,      \* bound: how often, in all
    MaxRekeys       \* bound: how often a key is given another passphrase

FaultKind ==
    { "crash",      \* a loader is killed (the terminal closes)
      "exec",       \* a program cannot be run
      "lookup",     \* the wallet cannot be asked
      "store",      \* the wallet refuses an entry
      "keyring",    \* the kernel keyring refuses an entry
      "settimeout", \* ... or refuses to time it
      "slow",       \* ssh-add takes a minute or more
      "agent",      \* the agent does not answer ssh-add
      "disk" }      \* a give-up record cannot be read, written or removed

ASSUME ProcessAssumption == Shell \cap Ssh = {} /\ Gui \subseteq Shell
ASSUME KeyAssumption == Key \subseteq Nat /\ IsFiniteSet(Key) /\ Opaque \subseteq Key
ASSUME PassAssumption == Blank \notin Pass /\ Absent \notin Pass /\ Blank # Absent
ASSUME SettingAssumption == ConfigFile \in Disk /\ Environs \subseteq [Shell -> Environ]
ASSUME BoundAssumption == Faults \subseteq FaultKind /\ MaxFaults \in Nat /\ MaxRekeys \in Nat

VARIABLES
    agent,      \* the keys the agent holds
    secret,     \* secret[k]: the passphrase of the file k, Blank for none
    wallet,     \* wallet[k]: the stored passphrase
    settings,   \* settings[s]: what load-keys resolved in shell s
    record,     \* record[k]: the give-up record, a file with a time stamp
    writing,    \* the shells whose open record is the file under that name
    stash,      \* the passphrases in the keyring, one entry per attempt
    timed,      \* the entries that expire
    pc,         \* pc[s]: the next step of shell s
    todo,       \* todo[s]: keys left; the first is the one at work
    snap,       \* snap[s]: the fingerprints the agent listed
    attempt,    \* attempt[s]: 0 for the stored passphrase, then 1, 2, ...
    pass,       \* pass[s]: the passphrase being tried
    got,        \* got[s]: what the askpass helper printed
    dead,       \* the shells killed; their ssh-add may still run
    ask,        \* ask[c]: the broker that serves client c
    spent,      \* faults so far
    rekeyed,    \* changes of a passphrase so far
    \* History variables.  They record and influence nothing.
    accepted,   \* accepted[k]: passphrases ssh-add has accepted, or that the
                \*   wallet held at the start
    held,       \* held[s]: keys given up, with a fresh record, ever since s
                \*   took its snapshot
    filled      \* filled[s]: keys whose passphrase the wallet has held ever
                \*   since s took its snapshot

records == <<record, writing>>
keyring == <<stash, timed>>
world   == <<agent, secret, wallet, settings, records, keyring>>
locals  == <<snap, attempt, pass, got>>
bounds  == <<spent, rekeyed>>
vars    == <<world, pc, todo, locals, dead, ask, bounds, accepted, held, filled>>

Attempts(conf) == IF conf.MaxAttempts < 1 THEN defaultMaxAttempts ELSE conf.MaxAttempts

max(s) == Attempts(settings[s])

ASSUME AttemptsAssumption ==
    /\ MaxAttempts \in Nat
    /\ \A environ \in Environs, s \in Shell :
        Attempts(Resolve(Load(ConfigFile), environ[s])) <= MaxAttempts

(* The give-up store of a shell: none under SSHAKKU_NO_GIVEUP; records     *)
(* that never expire with a TTL of zero; else with one TTL for all shells. *)
Giveup(s) ==
    CASE settings[s].NoGiveup -> "off"
      [] ~settings[s].NoGiveup /\ settings[s].GiveupTTL = 0 -> "never"
      [] OTHER -> "ttl"

Line == Pass \cup {Blank}
Entry == Shell \X Key \X (0..MaxAttempts)
AskpassSteps == {"ask", "unlink", "verify"}
PC == AskpassSteps \cup
      {"snapshot", "dedup", "givenup", "prune", "lookup", "stash", "timeout",
       "prompt", "tty", "store", "clear", "truncate", "stamp", "done", "crashed"}

WorldTypeOK ==
    /\ agent \in SUBSET Key
    /\ secret \in [Key -> Line]
    /\ wallet \in [Key -> Line \cup {Absent}]
    /\ settings \in [Shell -> SettingsType]
    /\ record \in [Key -> {"none", "torn", "fresh", "expired"}]
    /\ writing \in SUBSET Shell
    /\ stash \in SUBSET Entry /\ timed \in SUBSET stash
    /\ ask \in [Ssh -> {"idle", "lookup", "prompt", "done"} \X Key]
    /\ spent \in 0..MaxFaults /\ rekeyed \in 0..MaxRekeys

LoaderTypeOK ==
    /\ pc \in [Shell -> PC]
    /\ todo \in [Shell -> SUBSET Key]
    /\ snap \in [Shell -> SUBSET Key]
    /\ attempt \in [Shell -> Nat] /\ \A s \in Shell : attempt[s] <= max(s)
    /\ pass \in [Shell -> Line \cup {Absent}]
    /\ got \in [Shell -> Line \cup {Absent}]
    /\ dead \in SUBSET Shell

HistoryTypeOK ==
    /\ accepted \in [Key -> SUBSET (Line \cup {Absent})]
    /\ held \in [Shell -> SUBSET Key]
    /\ filled \in [Shell -> SUBSET Key]

TypeOK == WorldTypeOK /\ LoaderTypeOK /\ HistoryTypeOK

(* Any wallet, right, wrong or empty; any keys in the agent; any give-up   *)
(* records of earlier shells.                                              *)
Init ==
    /\ agent \in SUBSET Key
    /\ secret \in [Key -> Line]
    /\ wallet \in [Key -> Line \cup {Absent}]
    /\ \E environ \in Environs :
        settings = [s \in Shell |-> Resolve(Load(ConfigFile), environ[s])]
    /\ record \in [Key -> {"none", "fresh", "expired"}]
    /\ writing = {}
    /\ stash = {} /\ timed = {}
    /\ pc = [s \in Shell |-> "snapshot"]
    /\ todo = [s \in Shell |-> Key]
    /\ snap = [s \in Shell |-> {}]
    /\ attempt = [s \in Shell |-> 0]
    /\ pass = [s \in Shell |-> Absent]
    /\ got = [s \in Shell |-> Absent]
    /\ dead = {}
    /\ ask \in [Ssh -> {"idle"} \X Key]
    /\ spent = 0 /\ rekeyed = 0
    /\ accepted = [k \in Key |-> {wallet[k]}]
    /\ held = [s \in Shell |-> {}]
    /\ filled = [s \in Shell |-> {}]

Fault(kind) == kind \in Faults /\ spent < MaxFaults /\ spent' = spent + 1 /\ UNCHANGED rekeyed

Goto(s, from, to) == pc[s] = from /\ pc' = [pc EXCEPT ![s] = to]

\* The key at work, and the keyring entry of the attempt at it, whose random
\* name nothing else has.
CurrentKey(s) == Min(todo[s])

\* Mutant: all loads of a key share one name in the keyring.
CurrentEntry_Shared(s) == <<CHOOSE t \in Shell : TRUE, CurrentKey(s), attempt[s]>>

CurrentEntry(s) == <<s, CurrentKey(s), attempt[s]>>

(* Done with the current key, in whichever way: on to the next one.        *)
NextKey(s) ==
    /\ pc' = [pc EXCEPT ![s] = IF s \in dead THEN "crashed" ELSE "dedup"]
    /\ todo' = [todo EXCEPT ![s] = @ \ {CurrentKey(s)}]

\* ---- the loader ----------------------------------------------------------

(* LoadKeys lists the agent once; later keys are compared with this list.  *)
(* An agent that does not answer has an empty one.                         *)
Snapshot(s) ==
    /\ \/ /\ Goto(s, "snapshot", "dedup")
          /\ \/ snap' = [snap EXCEPT ![s] = agent] /\ UNCHANGED bounds
             \/ snap' = [snap EXCEPT ![s] = {}] /\ Fault("agent")
       \/ /\ Goto(s, "snapshot", "done")
          /\ Fault("exec")
          /\ UNCHANGED snap
    /\ UNCHANGED <<world, todo, attempt, pass, got, dead, ask, accepted>>

(* loadOne: skip a key whose fingerprint is on the list.                   *)
Dedup(s) ==
    /\ pc[s] = "dedup"
    /\ IF todo[s] = {}
         THEN Goto(s, "dedup", "done") /\ UNCHANGED todo
         ELSE IF CurrentKey(s) \in snap[s] \ Opaque
                THEN NextKey(s)
                ELSE Goto(s, "dedup", "givenup") /\ UNCHANGED todo
    /\ UNCHANGED <<world, locals, dead, ask, bounds, accepted>>

(* addWithRetries: the wallet first in a graphical session, else the       *)
(* terminal, with attempts counted from 1.                                 *)
StartAttempts(s) ==
    /\ pc' = [pc EXCEPT ![s] = IF s \in Gui THEN "lookup" ELSE "tty"]
    /\ attempt' = [attempt EXCEPT ![s] = IF s \in Gui THEN 0 ELSE 1]

(* loadOne, on what the give-up store finds: skip the key when the record  *)
(* counts; one that does not is removed, in a later step; one that cannot  *)
(* be read is as good as none.                                             *)
ReadRecord(s, r, counts) ==
    /\ pc[s] = "givenup"
    /\ \/ /\ StartAttempts(s)
          /\ (r = "none" /\ UNCHANGED bounds) \/ (r # "none" /\ Fault("disk"))
          /\ UNCHANGED todo
       \/ r # "none" /\ counts /\ NextKey(s) /\ UNCHANGED <<attempt, bounds>>
       \/ r # "none" /\ ~counts /\ Goto(s, "givenup", "prune") /\ UNCHANGED <<todo, attempt, bounds>>
    /\ UNCHANGED <<world, snap, pass, got, dead, ask, accepted>>

\* What the give-up store of a shell finds for its key.
RecordSeen(s) == IF Giveup(s) = "off" THEN "none" ELSE record[CurrentKey(s)]

\* Mutant: every record has a time limit.
GivenUp_AlwaysExpires(s) == ReadRecord(s, RecordSeen(s), RecordSeen(s) = "fresh")

\* Mutant: the age is compared the wrong way round.
GivenUp_Reversed(s) ==
    ReadRecord(s, RecordSeen(s), RecordSeen(s) = "expired" \/ Giveup(s) = "never")

(* giveup.GivenUp: a fresh record counts, and any record under a TTL of    *)
(* zero.                                                                   *)
GivenUp(s) ==
    ReadRecord(s, RecordSeen(s), RecordSeen(s) = "fresh" \/ Giveup(s) = "never")

\* The record goes; a shell still writing it writes to a nameless file.
RemoveRecord(k) ==
    /\ record' = [record EXCEPT ![k] = "none"]
    /\ writing' = {s \in writing : CurrentKey(s) # k}

(* os.Remove, of whatever has that name by now.                            *)
Prune(s) ==
    /\ pc[s] = "prune"
    /\ StartAttempts(s)
    /\ \/ RemoveRecord(CurrentKey(s)) /\ UNCHANGED bounds
       \/ Fault("disk") /\ UNCHANGED records
    /\ UNCHANGED <<agent, secret, wallet, settings, keyring, todo, snap, pass, got, dead, ask, accepted>>

Usable(line) == line \in Pass

(* storedPassphrase: a blank entry and a failed lookup are misses.         *)
Lookup(s) ==
    LET k == CurrentKey(s) IN
    /\ \/ /\ Goto(s, "lookup", "stash")
          /\ Usable(wallet[k])
          /\ pass' = [pass EXCEPT ![s] = wallet[k]]
          /\ UNCHANGED <<attempt, bounds>>
       \/ /\ Goto(s, "lookup", "prompt")
          /\ attempt' = [attempt EXCEPT ![s] = 1]
          /\ \/ ~Usable(wallet[k]) /\ UNCHANGED bounds
             \/ Fault("lookup")
          /\ UNCHANGED pass
    /\ UNCHANGED <<world, todo, snap, got, dead, ask, accepted>>

(* The user answers the dialog, dismisses it, or it cannot be shown.       *)
Prompt(s) ==
    /\ \/ /\ Goto(s, "prompt", "stash")
          /\ \E line \in Line : pass' = [pass EXCEPT ![s] = line]
          /\ UNCHANGED todo
       \/ /\ pc[s] = "prompt"
          /\ NextKey(s)
          /\ UNCHANGED pass
    /\ UNCHANGED <<world, snap, attempt, got, dead, ask, bounds, accepted>>

(* AddWithAskpass: put the passphrase into the keyring, under a name of    *)
(* its own.  The kernel takes no empty payload.                            *)
Stash(s) ==
    /\ \/ /\ Goto(s, "stash", "timeout")
          /\ stash' = stash \cup {CurrentEntry(s)}
          /\ UNCHANGED <<todo, bounds>>
       \/ /\ pc[s] = "stash"
          /\ NextKey(s)
          /\ \/ pass[s] = Blank /\ UNCHANGED bounds
             \/ Fault("keyring")
          /\ UNCHANGED stash
    /\ UNCHANGED <<agent, secret, wallet, settings, records, timed, locals, dead, ask, accepted>>

\* Mutant: no SetTimeout.
SetTimeout_Forgotten(s) ==
    /\ Goto(s, "timeout", "ask")
    /\ UNCHANGED <<world, todo, locals, dead, ask, bounds, accepted>>

(* Its error, for an entry that is gone, say, is ignored.                  *)
SetTimeout(s) ==
    /\ Goto(s, "timeout", "ask")
    /\ \/ timed' = timed \cup (stash \cap {CurrentEntry(s)}) /\ UNCHANGED bounds
       \/ Fault("settimeout") /\ UNCHANGED timed
    /\ UNCHANGED <<agent, secret, wallet, settings, records, stash, todo, locals, dead, ask, accepted>>

\* Where a shell asks for the next passphrase.
AskAgain(s) == IF s \in Gui THEN "prompt" ELSE "tty"

\* Mutant: what the user typed is stored all the same.
Refused_Stores(s) ==
    /\ pc' = [pc EXCEPT ![s] = IF s \in Gui /\ attempt[s] > 0 THEN "store" ELSE AskAgain(s)]
    /\ attempt' = [attempt EXCEPT ![s] = 1]
    /\ UNCHANGED todo

\* Mutant: the attempts are not counted.
Refused_Uncounted(s) ==
    /\ pc' = [pc EXCEPT ![s] = AskAgain(s)]
    /\ UNCHANGED <<todo, attempt>>

\* Mutant: one attempt too many.
Refused_OffByOne(s) ==
    \/ /\ attempt[s] <= max(s)
       /\ pc' = [pc EXCEPT ![s] = AskAgain(s)]
       /\ attempt' = [attempt EXCEPT ![s] = @ + 1]
       /\ UNCHANGED todo
    \/ /\ attempt[s] > max(s)
       /\ NextKey(s)
       /\ UNCHANGED attempt

(* ssh-add exits non-zero: ask again, or give up on the key.               *)
Refused(s) ==
    \/ /\ s \notin dead /\ attempt[s] < max(s)
       /\ pc' = [pc EXCEPT ![s] = AskAgain(s)]
       /\ attempt' = [attempt EXCEPT ![s] = @ + 1]
       /\ UNCHANGED todo
    \/ /\ s \notin dead /\ attempt[s] = max(s) /\ Giveup(s) # "off"
       /\ pc' = [pc EXCEPT ![s] = "truncate"]
       /\ UNCHANGED <<todo, attempt>>
    \/ /\ s \in dead \/ (attempt[s] = max(s) /\ Giveup(s) = "off")
       /\ NextKey(s)
       /\ UNCHANGED attempt

(* ssh-add exits zero: a passphrase the user typed goes into the wallet.   *)
Accepted(s, p) ==
    LET prompted == s \in Gui /\ attempt[s] > 0 IN
    /\ agent' = agent \cup {CurrentKey(s)}
    /\ accepted' = [accepted EXCEPT ![CurrentKey(s)] = @ \cup {p}]
    /\ \/ s \in dead /\ NextKey(s)
       \/ /\ s \notin dead
          /\ pc' = [pc EXCEPT ![s] = IF prompted THEN "store" ELSE "clear"]
          /\ UNCHANGED todo
    /\ UNCHANGED attempt

(* ssh-add on a file without a passphrase asks for none.                   *)
AddPlain(s) ==
    /\ pc[s] = "ask"
    /\ secret[CurrentKey(s)] = Blank
    /\ Accepted(s, pass[s])
    /\ UNCHANGED <<secret, wallet, settings, records, keyring, snap, pass, got, dead, ask, bounds>>

(* ssh-add runs sshakku as its askpass helper, which reads the entry ...   *)
HelperRead(s) ==
    /\ Goto(s, "ask", "unlink")
    /\ secret[CurrentKey(s)] # Blank
    /\ got' = [got EXCEPT ![s] = IF CurrentEntry(s) \in stash THEN pass[s] ELSE Absent]
    /\ UNCHANGED <<world, todo, snap, attempt, pass, dead, ask, bounds, accepted>>

(* ... and unlinks it, whether or not it could read it.                    *)
HelperUnlink(s) ==
    /\ Goto(s, "unlink", "verify")
    /\ stash' = stash \ {CurrentEntry(s)}
    /\ timed' = timed \ {CurrentEntry(s)}
    /\ UNCHANGED <<agent, secret, wallet, settings, records, todo, locals, dead, ask, bounds, accepted>>

(* ssh-add tries what it was given; a passphrase it rejects it asks for    *)
(* once more, and then the helper has nothing.                             *)
Verify(s) ==
    /\ pc[s] = "verify"
    /\ got' = [got EXCEPT ![s] = Absent]
    /\ IF got[s] = secret[CurrentKey(s)]
         THEN Accepted(s, got[s])
         ELSE Refused(s) /\ UNCHANGED <<agent, accepted>>
    /\ UNCHANGED <<secret, wallet, settings, records, keyring, snap, pass, dead, ask, bounds>>

\* The key that ssh-add is about to add: it needs no passphrase, or has got
\* the right one, or the user may type it.
Adding(s) ==
    {k \in {CurrentKey(s)} : pc[s] = "tty" \/ secret[k] = (IF pc[s] = "ask" THEN Blank ELSE got[s])}

(* ssh-add exits non-zero for another reason, or is killed after a minute, *)
(* perhaps when it has added the key: all read as a wrong passphrase.      *)
AddFails(s) ==
    /\ pc[s] \in {"ask", "verify", "tty"}
    /\ got' = [got EXCEPT ![s] = Absent]
    /\ Refused(s)
    /\ \/ Fault("agent") /\ UNCHANGED agent
       \/ s \notin dead /\ Fault("slow") /\ agent' \in {agent, agent \cup Adding(s)}
    /\ UNCHANGED <<secret, wallet, settings, records, keyring, snap, pass, dead, ask, accepted>>

(* ssh-add cannot be run, or has just added the key when its time is up,   *)
(* which runSSHAdd returns as an error, too: the key is abandoned, with no *)
(* record.                                                                 *)
AddAbandoned(s) ==
    /\ pc[s] \in {"ask", "verify", "tty"} /\ s \notin dead
    /\ NextKey(s)
    /\ \/ pc[s] # "verify" /\ Fault("exec") /\ UNCHANGED <<agent, got>>
       \/ /\ Adding(s) # {} /\ Fault("slow")
          /\ agent' = agent \cup Adding(s)
          /\ got' = [got EXCEPT ![s] = Absent]
    /\ UNCHANGED <<secret, wallet, settings, records, keyring, snap, attempt, pass, dead, ask, accepted>>

(* AddInteractive: ssh-add asks on the terminal itself.                    *)
AddOnTerminal(s) ==
    /\ pc[s] = "tty"
    /\ \/ /\ Accepted(s, secret[CurrentKey(s)])
       \/ /\ secret[CurrentKey(s)] # Blank
          /\ Refused(s)
          /\ UNCHANGED <<agent, accepted>>
    /\ UNCHANGED <<secret, wallet, settings, records, keyring, snap, pass, got, dead, ask, bounds>>

(* storePassphrase, best effort.                                           *)
StorePassphrase(s) ==
    /\ Goto(s, "store", "clear")
    /\ \/ wallet' = [wallet EXCEPT ![CurrentKey(s)] = pass[s]] /\ UNCHANGED bounds
       \/ Fault("store") /\ UNCHANGED wallet
    /\ UNCHANGED <<agent, secret, settings, records, keyring, todo, locals, dead, ask, accepted>>

(* clearGiveup, best effort.                                               *)
ClearGiveup(s) ==
    /\ pc[s] = "clear"
    /\ NextKey(s)
    /\ \/ Giveup(s) # "off" /\ RemoveRecord(CurrentKey(s)) /\ UNCHANGED bounds
       \/ Giveup(s) = "off" /\ UNCHANGED <<records, bounds>>
       \/ Giveup(s) # "off" /\ Fault("disk") /\ UNCHANGED records
    /\ UNCHANGED <<agent, secret, wallet, settings, keyring, locals, dead, ask, accepted>>

(* recordGiveup, best effort: WriteFile truncates the record ...           *)
TruncateRecord(s) ==
    /\ \/ /\ Goto(s, "truncate", "stamp")
          /\ record' = [record EXCEPT ![CurrentKey(s)] = "torn"]
          /\ writing' = writing \cup {s}
          /\ UNCHANGED <<todo, bounds>>
       \/ /\ pc[s] = "truncate"
          /\ NextKey(s)
          /\ Fault("disk")
          /\ UNCHANGED records
    /\ UNCHANGED <<agent, secret, wallet, settings, keyring, locals, dead, ask, accepted>>

(* ... and writes the time into the file it opened, which may by now have  *)
(* lost its name.                                                          *)
StampRecord(s) ==
    /\ pc[s] = "stamp"
    /\ NextKey(s)
    /\ writing' = writing \ {s}
    /\ \/ /\ record' = [record EXCEPT ![CurrentKey(s)] = IF s \in writing THEN "fresh" ELSE @]
          /\ UNCHANGED bounds
       \/ Fault("disk") /\ UNCHANGED record
    /\ UNCHANGED <<agent, secret, wallet, settings, keyring, locals, dead, ask, accepted>>

\* ---- the broker ----------------------------------------------------------

AskKey(c) == ask[c][2]

AskGoto(c, from, to) == ask[c][1] = from /\ ask' = [ask EXCEPT ![c] = <<to, AskKey(c)>>]

(* ssh needs its key and runs sshakku as its askpass program.              *)
BrokerCalled(c) ==
    /\ AskGoto(c, "idle", "lookup")
    /\ UNCHANGED <<world, pc, todo, locals, dead, bounds, accepted>>

BrokerLookup(c) ==
    /\ \/ /\ Usable(wallet[AskKey(c)])
          /\ AskGoto(c, "lookup", "done")
          /\ UNCHANGED bounds
       \/ /\ AskGoto(c, "lookup", "prompt")
          /\ \/ ~Usable(wallet[AskKey(c)]) /\ UNCHANGED bounds
             \/ Fault("lookup")
    /\ UNCHANGED <<world, pc, todo, locals, dead, accepted>>

(* The user types on the terminal, if there is one; what is typed is       *)
(* stored at once, unless it is blank, and handed to ssh.                  *)
BrokerPrompt(c) ==
    /\ AskGoto(c, "prompt", "done")
    /\ \/ /\ \E line \in Pass : wallet' = [wallet EXCEPT ![AskKey(c)] = line]
          /\ UNCHANGED bounds
       \/ UNCHANGED <<wallet, bounds>>
       \/ Fault("store") /\ UNCHANGED wallet
    /\ UNCHANGED <<agent, secret, settings, records, keyring, pc, todo, locals, dead, accepted>>

Broker(c) == BrokerCalled(c) \/ BrokerLookup(c) \/ BrokerPrompt(c)

(***************************************************************************)
(* The environment.                                                        *)
(***************************************************************************)

(* The loader dies.  A detached ssh-add goes on without it.                *)
Crash(s) ==
    /\ s \notin dead /\ pc[s] \notin {"done", "crashed"}
    /\ Fault("crash")
    /\ dead' = dead \cup {s}
    /\ pc' = IF pc[s] \in AskpassSteps THEN pc ELSE [pc EXCEPT ![s] = "crashed"]
    /\ writing' = writing \ {s}
    /\ UNCHANGED <<agent, secret, wallet, settings, record, keyring, todo, locals, ask, accepted>>

(* The lifetime of a key in the agent ends.                                *)
KeyExpires(k) ==
    /\ agent' = agent \ {k}
    /\ UNCHANGED <<secret, wallet, settings, records, keyring, pc, todo, locals, dead, ask,
                   bounds, accepted>>

(* SSHAKKU_GIVEUP_TTL elapses for a record, where a shell has one.         *)
RecordExpires(k) ==
    /\ record[k] = "fresh"
    /\ \E s \in Shell : Giveup(s) = "ttl"
    /\ record' = [record EXCEPT ![k] = "expired"]
    /\ UNCHANGED <<agent, secret, wallet, settings, writing, keyring, pc, todo, locals, dead, ask,
                   bounds, accepted>>

(* The minute of a timed entry is over.  While its ssh-add still runs,     *)
(* that is a fault, for ssh-add has the same minute.                       *)
StashExpires(e) ==
    /\ e \in timed
    /\ stash' = stash \ {e}
    /\ timed' = timed \ {e}
    /\ IF pc[e[1]] \in AskpassSteps /\ CurrentEntry(e[1]) = e
         THEN Fault("slow")
         ELSE UNCHANGED bounds
    /\ UNCHANGED <<agent, secret, wallet, settings, records, pc, todo, locals, dead, ask, accepted>>

(* The user gives a key file another passphrase.                           *)
Rekey(k) ==
    /\ rekeyed < MaxRekeys
    /\ rekeyed' = rekeyed + 1
    /\ \E line \in Line \ {secret[k]} : secret' = [secret EXCEPT ![k] = line]
    /\ UNCHANGED <<agent, wallet, settings, records, keyring, pc, todo, locals, dead, ask, spent,
                   accepted>>

(***************************************************************************)
(* History.                                                                *)
(***************************************************************************)
Loading(s) == pc[s] \notin {"snapshot", "done", "crashed"}

\* What has been so since s took its snapshot, among what is so now.
Since(before, now) ==
    [s \in Shell |-> CASE ~Loading(s)'               -> {}
                       [] Loading(s)' /\ ~Loading(s) -> now
                       [] Loading(s)' /\ Loading(s)  -> before[s] \cap now]

Remember ==
    /\ held' = Since(held, {k \in Key : record'[k] = "fresh"})
    /\ filled' = Since(filled, {k \in Key : Usable(wallet'[k]) /\ wallet'[k] = secret'[k]})

(***************************************************************************)
(* The specification.                                                      *)
(***************************************************************************)
Askpass(s) == HelperRead(s) \/ HelperUnlink(s)

\* The steps that wait for a program run without a time limit (ssh-add -l,
\* ssh-keygen, secret-tool), or for the user.
Waits(s) == Snapshot(s) \/ Dedup(s) \/ Lookup(s) \/ Prompt(s) \/ StorePassphrase(s)

\* Those that do not, or for a minute at most.
Machine(s) ==
    \/ GivenUp(s) \/ Prune(s)
    \/ Stash(s) \/ SetTimeout(s)
    \/ AddPlain(s) \/ Askpass(s) \/ Verify(s)
    \/ AddFails(s) \/ AddAbandoned(s) \/ AddOnTerminal(s)
    \/ ClearGiveup(s) \/ TruncateRecord(s) \/ StampRecord(s)

Loader(s) == Machine(s) \/ Waits(s)

Environment ==
    \/ \E s \in Shell : Crash(s)
    \/ \E k \in Key : KeyExpires(k) \/ RecordExpires(k) \/ Rekey(k)
    \/ \E e \in timed : StashExpires(e)

Next ==
    \/ \E s \in Shell : Loader(s) /\ Remember
    \/ \E c \in Ssh : Broker(c) /\ Remember
    \/ Environment /\ Remember

Spec == Init /\ [][Next]_vars

(* Processes keep running, and ssh-add is killed after a minute, on the    *)
(* terminal, too.  Nobody has to answer a dialog, and no other program has *)
(* to come back: a stalled agent holds up ssh-add -l, a locked wallet      *)
(* secret-tool.  Timed keyring entries expire.                             *)
Fairness ==
    /\ \A s \in Shell : WF_vars(Machine(s) /\ Remember)
    /\ \A e \in Entry : WF_vars(StashExpires(e) /\ Remember)

FairSpec == Spec /\ Fairness

(***************************************************************************)
(* Properties.                                                             *)
(***************************************************************************)

(* A shell whose wallet has held the right passphrase of a key ever since  *)
(* it started does not ask for it, whatever other shells and brokers do    *)
(* to the wallet, the agent and the records, unless something fails.       *)
(* (PLAN.md:508, "a new terminal silently re-adds an expired key from the  *)
(* wallet"; loadViaVaultThenPrompt and the askpass handoff.)               *)
SilentRefill ==
    spent = 0 => \A s \in Shell : pc[s] = "prompt" => CurrentKey(s) \notin filled[s]

\* No give-up record has failed to be read.
DiskWorks == spent = 0 \/ "disk" \notin Faults

(* A key that was given up before a shell began, and has stayed so, is     *)
(* neither tried nor asked for by that shell, as long as the disk works: a *)
(* record that cannot be read is none.  (loadOne, GivenUp;                 *)
(* CONFIGURATION.md:83-86.)                                                *)
GivenUpIsLeftAlone ==
    DiskWorks => \A s \in Shell :
        pc[s] \notin {"snapshot", "dedup", "givenup", "done", "crashed"} /\ Giveup(s) # "off"
            => CurrentKey(s) \notin held[s]

(* What a loader puts into the wallet, ssh-add has accepted for that key.  *)
(* (loadViaVaultThenPrompt.  A broker stores what was typed, unverified:   *)
(* askpass.go:87-89.)                                                      *)
LoaderStoresAccepted ==
    [][\A k \in Key :
         wallet'[k] # wallet[k] =>
            \/ wallet'[k] \in accepted[k]
            \/ \E c \in Ssh : ask[c][1] = "prompt" /\ ask'[c][1] = "done"]_vars

\* A shell that has just added k clears its record.
ClearedBySuccess(k) ==
    \E s \in Shell : pc[s] = "clear" /\ CurrentKey(s) = k /\ pc'[s] # "clear"

(* Where no shell lets records expire, one goes only by a successful add.  *)
(* (giveup.go:30-31; GivenUp, Record and Clear by several shells.)         *)
NeverExpiringStays ==
    [][\A k \in Key :
         (\A s \in Shell : Giveup(s) # "ttl") /\ record[k] # "none" /\ record'[k] = "none"
            => ClearedBySuccess(k)]_vars

\* Where a shell may be for good: at its end, or at a step that waits.
Rest == {"snapshot", "dedup", "lookup", "prompt", "store", "done", "crashed"}

(* Under FairSpec a shell ends, or comes to wait for its user or for a     *)
(* program that never comes back: the retries are bounded whatever the     *)
(* user types, and no shell waits anywhere else for ever.                  *)
(* (addWithRetries, runSSHAdd.)                                            *)
NoEndlessRetry == \A s \in Shell : <>[](pc[s] \in Rest)

(* Under FairSpec a passphrase that was put into the keyring does not stay *)
(* there, read or not, when no loader is killed and the kernel lets the    *)
(* entry be timed.  (AddWithAskpass, askpassFromKeyring.)                  *)
StashIsShortLived ==
    \A e \in Entry : []<>(e \notin stash)

(***************************************************************************)
(* Statements of the sources that the code does not live up to.            *)
(***************************************************************************)

(* CONFIGURATION.md:84-86, "It then skips the key in every new shell for   *)
(* SSHAKKU_GIVEUP_TTL ... A later successful load clears the give-up       *)
(* state": until then a fresh record stays.                                *)
FreshRecordStays ==
    [][\A k \in Key :
         record[k] = "fresh" /\ record'[k] = "none" => ClearedBySuccess(k)]_vars
=============================================================================
