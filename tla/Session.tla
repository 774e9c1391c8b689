------------------------------- MODULE Session ---------------------------------
(***************************************************************************)
(* Local accounts and the session of Nuvora Core: kernel/account.c, with   *)
(* the home volume it saves the accounts to.                               *)
(*                                                                         *)
(*  - database  the accounts in memory; what logins are checked against    *)
(*  - volume    the file system of the running machine: the accounts.db    *)
(*              file and the names under /home/users                       *)
(*  - stable    what a power loss leaves of it: the last committed root    *)
(*  - session   session_uid, and locked whether it waits for a password    *)
(*  - manager   the process that CLAIMed the session                       *)
(*  - owner     the uid of pid 1 (the supervisor, or Loom for recovery),   *)
(*              of the desktop it starts, and of one other program         *)
(*  - job       account_job: a password being hashed, in steps, by POLL    *)
(*  - commit    the changed accounts, while persist_candidate waits for    *)
(*              the disk; only the timer interrupt runs meanwhile          *)
(*                                                                         *)
(* An account is known by its name.  (Its uid is never given again; that   *)
(* a name is not given again either is a property below.)  Calls that fail *)
(* change nothing and are not steps, except the failed verifications.      *)
(* Time passes in ticks; the idle lock may come at any of them.            *)
(***************************************************************************)
EXTENDS Integers, SequencesExt

CONSTANTS
    Names,        \* user names
    Passwords,    \* passwords that a new account may have
    NoOne,        \* NV_UID_NONE
    MaxAccounts,  \* NV_ACCOUNT_MAX
    FreeFailures, \* this many failures in a row start the delays
    MaxFailures,  \* and this many the counter can hold
    BaseDelay,    \* ticks to wait after FreeFailures; twice as long each time
    MaxDelay      \* the longest wait

ASSUME SessionAssumption ==
    /\ NoOne \notin Names
    /\ MaxAccounts \in Nat \ {0}
    /\ FreeFailures \in Nat \ {0}
    /\ MaxFailures \in Nat /\ MaxFailures >= FreeFailures
    /\ BaseDelay \in Nat \ {0} /\ MaxDelay \in Nat /\ MaxDelay >= BaseDelay

VARIABLES
    database, volume, stable, \* the accounts, three times
    disk,                     \* disk_ready(): is there a volume to save them on
    frozen,                   \* it could not be restored and refuses writes
    broken,                   \* the accounts are not known for certain
    session, locked, manager, owner, job, commit,
    failures, retryDelay,     \* failed verifications, and the wait they cost
    since                     \* ticks since retry_started, up to MaxDelay

saved   == <<volume, stable>>
machine == <<disk, frozen>>
wait    == <<failures, retryDelay, since>>
vars == <<database, saved, machine, broken, session, locked, manager, owner,
          job, commit, wait>>

Process == {"init", "desktop", "app"}
Gone == "gone"
Account == [name : Names, admin : BOOLEAN, off : BOOLEAN, password : Passwords]
Tree == [accounts : Seq(Account), homes : SUBSET Names]
NoJob == [op |-> "none"]
NewAccountJob == [op : {"setup", "add"}, account : Account]
PasswordJob == [op : {"login", "password"}, name : Names, verifying : BOOLEAN,
                target : 0 .. MaxAccounts, verify : 0 .. MaxAccounts,
                guess : Passwords, new : Passwords]
NoCommit == [op |-> "none"]
Commit == [op : {"setup", "add", "password", "update", "remove"}, accounts : Seq(Account)]

TypeOK ==
    /\ database \in Seq(Account) /\ Len(database) <= MaxAccounts
    /\ volume \in Tree /\ stable \in Tree
    /\ disk \in BOOLEAN /\ frozen \in BOOLEAN /\ broken \in BOOLEAN
    /\ session \in Names \cup {NoOne} /\ locked \in BOOLEAN
    /\ manager \in Process \cup {Gone}
    /\ owner \in [Process -> Names \cup {NoOne, Gone}]
    /\ job \in {NoJob} \cup NewAccountJob \cup PasswordJob
    /\ commit \in {NoCommit} \cup Commit
    /\ failures \in 0 .. MaxFailures
    /\ retryDelay \in 0 .. MaxDelay /\ since \in 0 .. MaxDelay
-----------------------------------------------------------------------------
(* Accounts, and who may do what.                                          *)

\* account_index, name_index: 0 if there is no such account (NV_ACCOUNT_MAX).
Index(accounts, name) ==
    IF \E i \in DOMAIN accounts : accounts[i].name = name
    THEN CHOOSE i \in DOMAIN accounts : accounts[i].name = name
    ELSE 0

Enabled(accounts, name) ==
    \E i \in DOMAIN accounts : accounts[i].name = name /\ ~accounts[i].off
EnabledAdmins(accounts) ==
    {i \in DOMAIN accounts : accounts[i].admin /\ ~accounts[i].off}

\* administrator(), asked by the manager.
Administrator ==
    /\ ~locked
    /\ owner[manager] = session
    /\ \E i \in DOMAIN database : database[i].name = session /\ database[i].admin

SessionAllowed(p) == ~locked /\ Enabled(database, owner[p])

\* A call of the session manager.  Calls are serialized, and wait for a commit.
Free == commit = NoCommit
Manages == Free /\ manager # Gone

\* cooldown_remaining is 0.  (Mutated: a tick too early.)
AlmostCooledDown == since + 1 >= retryDelay
CooledDown == since >= retryDelay
Delay(n) ==
    IF n < FreeFailures THEN 0
    ELSE LET d == BaseDelay * 2 ^ (n - FreeFailures)
         IN  IF d \in 0 .. MaxDelay THEN d ELSE MaxDelay
\* failures=retry_started=retry_delay=0; nothing asks how long ago 0 is.
ForgiveFailures == failures' = 0 /\ retryDelay' = 0 /\ since' = MaxDelay

\* session_start: the manager and pid 1 become the user.
StartSession(name) ==
    /\ session' = name /\ locked' = FALSE
    /\ owner' = [owner EXCEPT ![manager] = name, !["init"] = name]

\* lock_session forgets the job.  (Mutated: it survives.)
LockOnly == locked' = TRUE /\ UNCHANGED job
LockSession == locked' = TRUE /\ job' = NoJob

\* The account of the session is neither removed nor disabled.
SelfProtected(name) == name # session

\* mutation_error of the file system, and restore_error of the store.
\* (Mutated: a volume that was not restored is a blank one.)
AlwaysWritable == TRUE
Writable == ~frozen
-----------------------------------------------------------------------------
(* Power, processes and time.                                              *)

Empty == [accounts |-> <<>>, homes |-> {}]
Cold == [p \in Process |-> IF p = "init" THEN NoOne ELSE Gone]

Init ==
    /\ disk \in BOOLEAN /\ frozen = FALSE /\ broken = FALSE
    /\ database = <<>> /\ volume = Empty /\ stable = Empty
    /\ session = NoOne /\ locked = FALSE /\ manager = Gone /\ owner = Cold
    /\ job = NoJob /\ commit = NoCommit
    /\ failures = 0 /\ retryDelay = 0 /\ since = MaxDelay

\* Power loss or reset at any moment, then account_init.  The volume comes back
\* as it was committed, or not at all; then there is no accounts.db to open.
\* Or the file is there and cannot be read.
Reboot ==
    /\ session' = NoOne /\ locked' = FALSE /\ manager' = Gone /\ owner' = Cold
    /\ job' = NoJob /\ commit' = NoCommit
    /\ ForgiveFailures
    /\ \/ /\ volume' = stable /\ database' = stable.accounts
          /\ broken' = FALSE /\ frozen' = FALSE
       \/ /\ stable.accounts # <<>>
          /\ volume' = stable /\ database' = <<>>
          /\ broken' = TRUE /\ frozen' = FALSE
       \/ /\ disk
          /\ volume' = Empty /\ database' = <<>>
          /\ broken' = FALSE /\ frozen' = TRUE
    /\ UNCHANGED <<stable, disk>>

\* ticks-retry_started.
TimePasses ==
    /\ since < MaxDelay /\ since' = since + 1
    /\ UNCHANGED <<database, saved, machine, broken, session, locked, manager,
                   owner, job, commit, failures, retryDelay>>

\* account_tick, from the timer interrupt or at the start of a call.
IdleLock ==
    /\ Free \/ disk
    /\ session # NoOne /\ ~locked
    /\ LockSession
    /\ UNCHANGED <<database, saved, machine, broken, session, manager, owner,
                   commit, wait>>

\* Pid 1 starts the desktop, locked or not.
StartDesktop ==
    /\ Free /\ owner["desktop"] = Gone
    /\ owner' = [owner EXCEPT !["desktop"] = owner["init"]]
    /\ UNCHANGED <<database, saved, machine, broken, session, locked, manager,
                   job, commit, wait>>

StartApp(p) ==
    /\ Free /\ owner["app"] = Gone /\ SessionAllowed(p)
    /\ owner' = [owner EXCEPT !["app"] = owner[p]]
    /\ UNCHANGED <<database, saved, machine, broken, session, locked, manager,
                   job, commit, wait>>

\* A process ends or is killed; with the manager ends all but pid 1.
Exit(p) ==
    /\ Free /\ p # "init" /\ owner[p] # Gone
    /\ IF p # manager
       THEN /\ owner' = [owner EXCEPT ![p] = Gone]
            /\ UNCHANGED <<locked, manager, job>>
       ELSE /\ owner' = [owner EXCEPT !["desktop"] = Gone, !["app"] = Gone]
            /\ manager' = Gone
            /\ IF session # NoOne THEN LockSession ELSE job' = NoJob /\ UNCHANGED locked
    /\ UNCHANGED <<database, saved, machine, broken, session, commit, wait>>

\* NV_ACCOUNT_CLAIM: by the desktop, or by Loom running as pid 1.  The desktop
\* may relieve pid 1.
Claim(p) ==
    /\ Free /\ p \in {"init", "desktop"} /\ owner[p] # Gone
    /\ \/ manager \in {Gone, p}
       \/ manager = "init" /\ p = "desktop" /\ job = NoJob
    /\ manager' = p
    /\ UNCHANGED <<database, saved, machine, broken, session, locked, owner,
                   job, commit, wait>>

\* NV_CTL_SYNC.
Sync(p) ==
    /\ Free /\ disk /\ Writable /\ SessionAllowed(p)
    /\ stable' = volume
    /\ UNCHANGED <<database, volume, machine, broken, session, locked, manager,
                   owner, job, commit, wait>>
-----------------------------------------------------------------------------
(* begin_job.                                                              *)

\* A name whose directory was kept is taken.  (Mutated: only accounts count.)
NameInUse(name) == Index(database, name) # 0
NameTaken(name) == Index(database, name) # 0 \/ name \in volume.homes

BeginNewAccount(op, name, admin, password) ==
    /\ Manages /\ ~broken /\ job = NoJob
    /\ IF op = "setup" THEN database = <<>> /\ admin ELSE Administrator
    /\ Len(database) < MaxAccounts
    /\ ~NameTaken(name)
    /\ job' = [op |-> op, account |-> [name |-> name, admin |-> admin,
                                       off |-> FALSE, password |-> password]]
    /\ UNCHANGED <<database, saved, machine, broken, session, locked, manager,
                   owner, commit, wait>>

\* Only the user who locked the session can unlock it; a guess for anybody else
\* is hashed as long as any other, and fails.
\* (Mutated: anybody can.)
AnyTarget(name) == Index(database, name)
LoginTarget(name) ==
    IF locked /\ name # session THEN 0 ELSE Index(database, name)

BeginLogin(name, guess) ==
    /\ Manages /\ ~broken /\ job = NoJob
    /\ database # <<>> /\ (session = NoOne \/ locked)
    /\ CooledDown
    /\ job' = [op |-> "login", name |-> name, verifying |-> TRUE,
               target |-> LoginTarget(name), verify |-> LoginTarget(name),
               guess |-> guess, new |-> guess]
    /\ retryDelay' = 0
    /\ UNCHANGED <<database, saved, machine, broken, session, locked, manager,
                   owner, commit, failures, since>>

\* The user's own password is asked for, also to change another's.
BeginPassword(name, guess, new) ==
    /\ Manages /\ ~broken /\ job = NoJob
    /\ ~locked /\ Index(database, session) # 0 /\ Index(database, name) # 0
    /\ name = session \/ Administrator
    /\ CooledDown
    /\ job' = [op |-> "password", name |-> name, verifying |-> TRUE,
               target |-> Index(database, name), verify |-> Index(database, session),
               guess |-> guess, new |-> new]
    /\ retryDelay' = 0
    /\ UNCHANGED <<database, saved, machine, broken, session, locked, manager,
                   owner, commit, failures, since>>

Cancel ==
    /\ Manages /\ job' = NoJob
    /\ UNCHANGED <<database, saved, machine, broken, session, locked, manager,
                   owner, commit, wait>>
-----------------------------------------------------------------------------
(* poll_job, when a hash is complete.                                      *)

Verifying == Manages /\ job \in PasswordJob /\ job.verifying
Matches ==
    /\ job.verify \in DOMAIN database
    /\ ~database[job.verify].off /\ database[job.verify].password = job.guess

CountFailure == IF failures < MaxFailures THEN failures + 1 ELSE failures

VerificationFails ==
    /\ Verifying /\ ~Matches
    /\ failures' = CountFailure
    /\ IF CountFailure >= FreeFailures
       THEN retryDelay' = Delay(CountFailure) /\ since' = 0
       ELSE UNCHANGED <<retryDelay, since>>
    /\ job' = NoJob
    /\ UNCHANGED <<database, saved, machine, broken, session, locked, manager,
                   owner, commit>>

LoginSucceeds ==
    /\ Verifying /\ Matches /\ job.op = "login"
    /\ ForgiveFailures
    /\ StartSession(database[job.target].name)
    /\ job' = NoJob
    /\ UNCHANGED <<database, saved, machine, broken, manager, commit>>

\* The second hash begins, if there is randomness for its salt.
PasswordVerified ==
    /\ Verifying /\ Matches /\ job.op = "password"
    /\ ForgiveFailures
    /\ job' \in {[job EXCEPT !.verifying = FALSE], NoJob}
    /\ UNCHANGED <<database, saved, machine, broken, session, locked, manager,
                   owner, commit>>

Hashed == Manages /\ (job \in NewAccountJob \/ (job \in PasswordJob /\ ~job.verifying))

\* The directory or the file could not be written: all of it is taken back.
WriteFails ==
    /\ Hashed /\ job' = NoJob
    /\ UNCHANGED <<database, saved, machine, broken, session, locked, manager,
                   owner, commit, wait>>

\* persist_candidate up to store_sync: accounts.db is replaced in the volume.
Write(op, accounts) ==
    /\ Writable
    /\ commit' = [op |-> op, accounts |-> accounts]
    /\ UNCHANGED <<database, stable, machine, broken, session, locked, manager,
                   owner, job, wait>>

WriteAccount ==
    /\ Hashed /\ job \in NewAccountJob
    /\ LET accounts == Append(database, job.account)
       IN  /\ Write(job.op, accounts)
           /\ volume' = [accounts |-> accounts,
                         homes |-> volume.homes \cup {job.account.name}]

WritePassword ==
    /\ Hashed /\ job \in PasswordJob
    /\ LET accounts == [database EXCEPT ![job.target].password = job.new]
       IN  Write("password", accounts) /\ volume' = [volume EXCEPT !.accounts = accounts]
-----------------------------------------------------------------------------
(* update_account and the end of persist_candidate.                        *)

\* One enabled administrator is left.  (Mutated: not checked.)
KeepsAnybody(accounts) == TRUE
KeepsAdmin(accounts) == EnabledAdmins(accounts) # {}

MayUpdate == Manages /\ ~broken /\ ~locked /\ job = NoJob /\ session # NoOne

\* New role and flags; the display name, which a user may change as well, is
\* not modelled.
Update(i, admin, off) ==
    /\ MayUpdate
    /\ \/ Administrator
       \/ /\ database[i].name = session
          /\ database[i].admin = admin /\ database[i].off = off
    /\ off => SelfProtected(database[i].name)
    /\ LET accounts == [database EXCEPT ![i].admin = admin, ![i].off = off]
       IN  /\ KeepsAdmin(accounts)
           /\ Write("update", accounts)
           /\ volume' = [volume EXCEPT !.accounts = accounts]

\* The directory is kept.
RemoveAccount(i) ==
    /\ MayUpdate /\ Administrator /\ SelfProtected(database[i].name)
    /\ LET accounts == RemoveAt(database, i)
       IN  /\ KeepsAdmin(accounts)
           /\ Write("remove", accounts)
           /\ volume' = [volume EXCEPT !.accounts = accounts]

\* The volume confirms.  Only now are the accounts changed and a job answered.
Committed ==
    /\ commit # NoCommit /\ Writable
    /\ stable' = IF disk THEN volume ELSE stable
    /\ database' = commit.accounts
    /\ commit' = NoCommit /\ job' = NoJob
    /\ IF commit.op = "setup"
       THEN StartSession(Last(commit.accounts).name) /\ ForgiveFailures
       ELSE UNCHANGED <<session, locked, owner, wait>>
    /\ UNCHANGED <<volume, machine, broken, manager>>

\* It does not, and whether the root was written is not known.
\* (Mutated: a failed commit is taken for one that did nothing.)
Unmarked == broken
Ambiguous == TRUE

CommitFails ==
    /\ commit # NoCommit /\ disk
    /\ stable' \in {stable, volume}
    /\ broken' = Ambiguous
    /\ commit' = NoCommit /\ job' = NoJob
    /\ UNCHANGED <<database, volume, machine, session, locked, manager, owner, wait>>
-----------------------------------------------------------------------------
(* Locking and signing out.                                                *)

Lock ==
    /\ Manages /\ ~broken /\ session # NoOne /\ job = NoJob /\ ~locked
    /\ LockSession
    /\ UNCHANGED <<database, saved, machine, broken, session, manager, owner,
                   commit, wait>>

\* Everything but pid 1 and the manager ends, and both forget who they were.
\* (Mutated: pid 1 does not.)
ManagerSignedOut == [p \in Process |-> IF p = manager THEN NoOne
                                       ELSE IF p = "init" THEN owner[p] ELSE Gone]
SignedOut == [p \in Process |-> IF p \in {"init", manager} THEN NoOne ELSE Gone]

Logout ==
    /\ Manages
    /\ session' = NoOne /\ locked' = FALSE /\ owner' = SignedOut
    /\ job' = NoJob
    /\ UNCHANGED <<database, saved, machine, broken, manager, commit, wait>>

Next ==
    \/ Reboot \/ TimePasses \/ IdleLock \/ StartDesktop
    \/ \E p \in Process : StartApp(p) \/ Exit(p) \/ Claim(p) \/ Sync(p)
    \/ \E name \in Names, password \in Passwords :
          \/ \E op \in {"setup", "add"}, admin \in BOOLEAN :
                BeginNewAccount(op, name, admin, password)
          \/ BeginLogin(name, password)
          \/ \E guess \in Passwords : BeginPassword(name, guess, password)
    \/ Cancel \/ VerificationFails \/ LoginSucceeds \/ PasswordVerified
    \/ WriteFails \/ WriteAccount \/ WritePassword
    \/ \E i \in DOMAIN database :
          \/ \E admin, off \in BOOLEAN : Update(i, admin, off)
          \/ RemoveAccount(i)
    \/ Committed \/ CommitFails \/ Lock \/ Logout

Spec == Init /\ [][Next]_vars
-----------------------------------------------------------------------------
(* What must hold.                                                         *)

\* Whoever is signed in has an account, and it is not disabled: update_account
\* keeps it, and no failed or lost commit takes it from memory.
SessionHasAccount == session # NoOne => Enabled(database, session)

\* A job in hand is still one that begin_job would accept: the session, its
\* lock and its role have not changed under it, and the indices it noted still
\* mean the same accounts, though memory was shared with calls, exits, lock
\* timer and commits since.
JobStillAuthorized ==
    /\ job # NoJob => manager # Gone
    /\ job.op = "setup" => database = <<>> /\ session = NoOne
    /\ job.op = "add" => ~locked /\ session \in {database[i].name : i \in EnabledAdmins(database)}
    /\ job.op = "login" =>
          /\ session = NoOne \/ locked
          /\ job.target \in IF locked /\ job.name # session THEN {0} ELSE {Index(database, job.name)}
    /\ job.op = "password" =>
          /\ ~locked /\ session # NoOne
          /\ job.verify = Index(database, session)
          /\ job.target = Index(database, job.name)
          /\ \/ job.name = session
             \/ job.verify \in EnabledAdmins(database)

\* Every process acts for the user of the session or for nobody, whoever
\* managed the sessions before and however they ended.
OnlySessionProcesses == \A p \in Process : owner[p] \in {session, NoOne, Gone}

\* Once there are accounts, one of them is an enabled administrator: in
\* memory, and in what the next start will load.
AdminRemains ==
    \A accounts \in {database, stable.accounts} :
        accounts # <<>> => EnabledAdmins(accounts) # {}

\* The accounts are sound: of their types, with an administrator who can act,
\* and with the one who is signed in, after any calls, commits and restarts.
AccountsSound == TypeOK /\ SessionHasAccount /\ AdminRemains

\* What logins are checked against is what a power loss would leave, also
\* while a change waits for the disk; unless the service says it is broken.
Published == disk /\ ~frozen /\ ~broken => database = stable.accounts

\* No password is tried sooner after FreeFailures wrong ones than the
\* failures so far require, by login or by change of password.
GuessesDelayed ==
    job \in PasswordJob /\ job.verifying => since >= Delay(failures)

\* A session begins or is unlocked with the password of its user, or by
\* setting up the first account; a locked one never becomes another's.
SignsIn == session' # NoOne /\ (session' # session \/ (locked /\ ~locked'))
ProvenSession ==
    [][SignsIn =>
        /\ \/ commit.op = "setup" /\ session' = Last(commit.accounts).name
           \/ /\ job.op = "login"
              /\ \E i \in DOMAIN database :
                    /\ database[i].name = session' /\ ~database[i].off
                    /\ database[i].password = job.guess
        /\ session \in {session', NoOne}]_vars

\* The accounts on the disk are never replaced as a whole, not by a setup after
\* a start that could not read them; and nobody gets the kept directory of a
\* removed account with its name.
NamesOf(accounts) == {accounts[i].name : i \in DOMAIN accounts}
EstablishedKept ==
    [][LET was == NamesOf(stable.accounts)
           now == NamesOf(stable'.accounts)
       IN  /\ stable.accounts # <<>> => was \cap now # {}
           /\ (now \ was) \cap stable.homes = {}]_vars
=============================================================================
