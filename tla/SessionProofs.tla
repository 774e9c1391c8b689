---------------------------- MODULE SessionProofs -----------------------------
(***************************************************************************)
(* Proofs about Session, for any number of accounts, names, passwords and  *)
(* failures.                                                               *)
(*                                                                         *)
(* The accounts are held four times: in memory, in the volume, in what a   *)
(* power loss leaves of it, and in a commit under way.  Each copy is well  *)
(* formed on its own (Good); Copies says which of them agree when, and     *)
(* Working what the job and the commit rely on.                            *)
(***************************************************************************)
EXTENDS Session, TLAPS, SequenceTheorems

Distinct(accounts) ==
    \A i, j \in DOMAIN accounts : accounts[i].name = accounts[j].name => i = j

\* A list of accounts that can be loaded and used.
Good(accounts) ==
    /\ accounts \in Seq(Account) /\ Len(accounts) <= MaxAccounts
    /\ Distinct(accounts)
    /\ accounts # <<>> => EnabledAdmins(accounts) # {}

\* What was ever committed and the volume have an account in common, and no new
\* account has the directory of an old one.
Descends(new, old) ==
    /\ old.homes \subseteq new.homes
    /\ old.accounts # <<>> => NamesOf(old.accounts) \cap NamesOf(new.accounts) # {}
    /\ (NamesOf(new.accounts) \ NamesOf(old.accounts)) \cap old.homes = {}

Copies ==
    /\ Good(database) /\ Good(volume.accounts) /\ Good(stable.accounts)
    /\ Published
    /\ ~disk => stable = Empty
    /\ frozen => disk
    /\ ~frozen => Descends(volume, stable)
    /\ commit = NoCommit /\ ~broken /\ ~frozen => volume.accounts = database

\* A commit under way has the lock of the kernel: nobody else changes accounts,
\* and the session it is for stays.
CommitSound ==
    commit # NoCommit =>
        /\ ~broken /\ ~frozen /\ manager # Gone
        /\ Good(commit.accounts) /\ volume.accounts = commit.accounts
        /\ commit.op = "setup" =>
              /\ database = <<>> /\ session = NoOne /\ Len(commit.accounts) = 1
              /\ ~commit.accounts[1].off
        /\ commit.op # "setup" => session # NoOne /\ Enabled(commit.accounts, session)

\* A job has its account still to come, or the two it is about.
JobSound ==
    /\ job # NoJob => ~broken
    /\ job \in NewAccountJob =>
          /\ ~job.account.off
          /\ job.op = "setup" => job.account.admin
          /\ commit = NoCommit => /\ Len(database) < MaxAccounts
                                  /\ ~NameTaken(job.account.name)
    /\ job \in PasswordJob =>
          /\ job.op = "login" => job.verifying /\ job.verify = job.target
          /\ job.op = "password" => job.target # 0

\* The wait has passed, or it is the one the failures ask for.
Delayed ==
    /\ since >= Delay(failures) \/ retryDelay = Delay(failures)
    /\ GuessesDelayed

Working == SessionHasAccount /\ OnlySessionProcesses /\ JobStillAuthorized
           /\ CommitSound /\ JobSound /\ Delayed

IInv == TypeOK /\ Copies /\ Working
-----------------------------------------------------------------------------
(* Lists of accounts.                                                      *)

LEMMA Element ==
    ASSUME NEW s \in Seq(Account)
    PROVE  /\ Len(s) \in Nat /\ DOMAIN s = 1 .. Len(s)
           /\ s = <<>> <=> Len(s) = 0
           /\ \A i \in DOMAIN s : /\ s[i] \in Account /\ s[i].name \in Names
                                  /\ s[i].name # NoOne /\ s[i].admin \in BOOLEAN
                                  /\ s[i].off \in BOOLEAN
<1>1. Len(s) \in Nat /\ DOMAIN s = 1 .. Len(s) /\ \A i \in 1 .. Len(s) : s[i] \in Account
  BY ElementOfSeq, LenProperties
<1>2. s = <<>> <=> Len(s) = 0
  BY EmptySeq
<1>3. \A a \in Account : a.name \in Names /\ a.name # NoOne /\ a.admin \in BOOLEAN
                         /\ a.off \in BOOLEAN
  BY SessionAssumption DEF Account
<1> HIDE DEF Account
<1> QED BY <1>1, <1>2, <1>3

LEMMA Appended ==
    ASSUME NEW s \in Seq(Account), NEW a \in Account
    PROVE  /\ Append(s, a) \in Seq(Account) /\ Len(Append(s, a)) = Len(s) + 1
           /\ \A i \in 1 .. Len(s) : Append(s, a)[i] = s[i]
           /\ Append(s, a)[Len(s) + 1] = a
           /\ Last(Append(s, a)) = a
<1> HIDE DEF Account
<1>1. Len(s) \in Nat
  BY LenProperties
<1>2. /\ Append(s, a) \in Seq(Account) /\ Len(Append(s, a)) = Len(s) + 1
      /\ \A i \in 1 .. Len(s) : Append(s, a)[i] = s[i]
      /\ Append(s, a)[Len(s) + 1] = a
  OBVIOUS
<1> QED BY <1>1, <1>2 DEF Last

LEMMA Removed ==
    ASSUME NEW s \in Seq(Account), NEW k \in DOMAIN s
    PROVE  /\ RemoveAt(s, k) \in Seq(Account) /\ Len(RemoveAt(s, k)) = Len(s) - 1
           /\ \A i \in 1 .. Len(s) - 1 :
                 RemoveAt(s, k)[i] = s[IF i < k THEN i ELSE i + 1]
<1> DEFINE front == SubSeq(s, 1, k - 1)
           back == SubSeq(s, k + 1, Len(s))
<1>1. Len(s) \in Nat /\ k \in 1 .. Len(s) /\ \A i \in 1 .. Len(s) : s[i] \in Account
  BY ElementOfSeq, LenProperties
<1>2. /\ 1 \in Int /\ k - 1 \in Int /\ k + 1 \in Int /\ Len(s) \in Int
      /\ \A i \in 1 .. k - 1 : s[i] \in Account
      /\ \A i \in k + 1 .. Len(s) : s[i] \in Account
  BY <1>1
<1> HIDE DEF Account
<1>3. /\ front \in Seq(Account) /\ Len(front) = k - 1
      /\ \A i \in 1 .. k - 1 : front[i] = s[i]
  <2>1. /\ front \in Seq(Account) /\ Len(front) = IF 1 <= k - 1 THEN (k - 1) - 1 + 1 ELSE 0
        /\ \A i \in 1 .. (k - 1) - 1 + 1 : front[i] = s[1 + i - 1]
    BY ONLY <1>2, SubSeqProperties
  <2> HIDE DEF front
  <2> QED BY <1>1, <2>1
<1>4. /\ back \in Seq(Account) /\ Len(back) = Len(s) - k
      /\ \A i \in 1 .. Len(s) - k : back[i] = s[k + i]
  <2>1. /\ back \in Seq(Account)
        /\ Len(back) = IF k + 1 <= Len(s) THEN Len(s) - (k + 1) + 1 ELSE 0
        /\ \A i \in 1 .. Len(s) - (k + 1) + 1 : back[i] = s[(k + 1) + i - 1]
    BY ONLY <1>2, SubSeqProperties, SMTT(30)
  <2> HIDE DEF back
  <2> QED BY <1>1, <2>1
<1>5. RemoveAt(s, k) = front \o back
  BY DEF RemoveAt
<1> HIDE DEF front, back
<1>6. /\ front \o back \in Seq(Account) /\ Len(front \o back) = Len(front) + Len(back)
      /\ \A i \in 1 .. Len(front) + Len(back) :
            (front \o back)[i] = IF i <= Len(front) THEN front[i] ELSE back[i - Len(front)]
  BY <1>3, <1>4, ConcatProperties
<1>7. Len(front \o back) = Len(s) - 1
  BY <1>1, <1>3, <1>4, <1>6
<1>8. ASSUME NEW i \in 1 .. Len(s) - 1
      PROVE  (front \o back)[i] = s[IF i < k THEN i ELSE i + 1]
  <2>0. Len(front) = k - 1 /\ i \in 1 .. Len(front) + Len(back)
    BY <1>1, <1>3, <1>4, SMTT(30)
  <2>1. (front \o back)[i] = IF i <= k - 1 THEN front[i] ELSE back[i - (k - 1)]
    BY <1>6, <2>0
  <2>2. CASE i < k
    BY <1>1, <1>3, <2>1, <2>2
  <2>3. CASE i >= k
    <3>1. i - (k - 1) \in 1 .. Len(s) - k /\ k + (i - (k - 1)) = i + 1 /\ ~(i <= k - 1)
      BY <1>1, <2>3
    <3> QED BY <1>1, <1>4, <2>1, <2>3, <3>1, SMTT(30)
  <2>4. i < k \/ i >= k
    BY <1>1
  <2> QED BY <2>2, <2>3, <2>4, Zenon
<1> QED BY <1>5, <1>6, <1>7, <1>8

\* The new value of an account of the list.
LEMMA Replaced ==
    ASSUME NEW s \in Seq(Account), NEW k \in DOMAIN s, NEW a \in Account
    PROVE  /\ [s EXCEPT ![k] = a] \in Seq(Account) /\ Len([s EXCEPT ![k] = a]) = Len(s)
           /\ \A i \in 1 .. Len(s) : [s EXCEPT ![k] = a][i] = IF i = k THEN a ELSE s[i]
<1>1. k \in 1 .. Len(s)
  BY LenProperties
<1> QED BY <1>1, ExceptSeq

LEMMA IndexIs ==
    ASSUME NEW s \in Seq(Account), NEW name
    PROVE  /\ Index(s, name) \in 0 .. Len(s)
           /\ Index(s, name) # 0 => Index(s, name) \in DOMAIN s /\ s[Index(s, name)].name = name
           /\ Index(s, name) = 0 => \A i \in DOMAIN s : s[i].name # name
           /\ Distinct(s) => \A i \in DOMAIN s : s[i].name = name => Index(s, name) = i
<1>1. Len(s) \in Nat /\ DOMAIN s = 1 .. Len(s)
  BY LenProperties
<1>2. CASE \E i \in DOMAIN s : s[i].name = name
  <2>1. Index(s, name) \in DOMAIN s /\ s[Index(s, name)].name = name
    BY <1>2 DEF Index
  <2> QED BY <1>1, <2>1 DEF Distinct
<1>3. CASE ~ \E i \in DOMAIN s : s[i].name = name
  BY <1>1, <1>3 DEF Index
<1> QED BY <1>2, <1>3
-----------------------------------------------------------------------------
(* What the changes make of a good list.                                   *)

LEMMA EmptyGood == Good(<<>>) /\ NamesOf(<<>>) = {} /\ EnabledAdmins(<<>>) = {}
<1>1. <<>> \in Seq(Account) /\ Len(<<>>) = 0 /\ DOMAIN <<>> = {}
  BY EmptySeq
<1> QED BY <1>1, SessionAssumption DEF Good, Distinct, NamesOf, EnabledAdmins

LEMMA Founded ==
    ASSUME NEW s, Good(s), s # <<>>
    PROVE  NamesOf(s) # {} /\ NamesOf(s) \subseteq Names
<1>1. EnabledAdmins(s) # {} /\ s \in Seq(Account)
  BY DEF Good
<1> QED BY <1>1, Element DEF EnabledAdmins, NamesOf

LEMMA GoodAppend ==
    ASSUME NEW s, Good(s), NEW a \in Account, Len(s) < MaxAccounts,
           s = <<>> => a.admin, ~a.off, \A i \in DOMAIN s : s[i].name # a.name
    PROVE  /\ Good(Append(s, a)) /\ Append(s, a) # <<>>
           /\ NamesOf(Append(s, a)) = NamesOf(s) \cup {a.name}
           /\ \A name : Enabled(s, name) => Enabled(Append(s, a), name)
<1> DEFINE t == Append(s, a)
<1>1. s \in Seq(Account) /\ Len(s) \in Nat /\ DOMAIN s = 1 .. Len(s) /\ (s = <<>> <=> Len(s) = 0)
  BY Element DEF Good
<1>2. /\ t \in Seq(Account) /\ Len(t) = Len(s) + 1 /\ t[Len(s) + 1] = a
      /\ \A i \in 1 .. Len(s) : t[i] = s[i]
  BY <1>1, Appended
<1>3. DOMAIN t = 1 .. Len(s) + 1 /\ t # <<>>
  <2>1. DOMAIN t = 1 .. Len(t) /\ (t = <<>> <=> Len(t) = 0)
    BY <1>2, Element
  <2> HIDE DEF t
  <2> QED BY <1>1, <1>2, <2>1
<1> HIDE DEF t
<1>4. Distinct(t)
  BY <1>1, <1>2, <1>3 DEF Good, Distinct
<1>5. EnabledAdmins(t) # {}
  <2>1. CASE s = <<>>
    BY <1>1, <1>2, <1>3, <2>1 DEF EnabledAdmins
  <2>2. CASE s # <<>>
    <3>1. PICK i \in DOMAIN s : s[i].admin /\ ~s[i].off
      BY <2>2 DEF Good, EnabledAdmins
    <3> QED BY <1>1, <1>2, <1>3, <3>1 DEF EnabledAdmins
  <2> QED BY <2>1, <2>2
<1>6. Good(t)
  <2>1. Len(t) <= MaxAccounts
    BY <1>1, <1>2, SessionAssumption
  <2> QED BY <1>2, <1>4, <1>5, <2>1 DEF Good
<1>7. NamesOf(t) = NamesOf(s) \cup {a.name}
  <2>1. NamesOf(t) \subseteq NamesOf(s) \cup {a.name}
    BY <1>1, <1>2, <1>3 DEF NamesOf
  <2>2. NamesOf(s) \subseteq NamesOf(t)
    BY <1>1, <1>2, <1>3 DEF NamesOf
  <2>3. a.name \in NamesOf(t)
    BY <1>1, <1>2, <1>3 DEF NamesOf
  <2> QED BY <2>1, <2>2, <2>3
<1>8. ASSUME NEW name, Enabled(s, name) PROVE Enabled(t, name)
  BY <1>1, <1>2, <1>3, <1>8 DEF Enabled
<1> QED BY <1>3, <1>6, <1>7, <1>8 DEF t

LEMMA GoodReplace ==
    ASSUME NEW s, Good(s), NEW k \in DOMAIN s, NEW a \in Account, a.name = s[k].name,
           EnabledAdmins([s EXCEPT ![k] = a]) # {}
    PROVE  /\ Good([s EXCEPT ![k] = a]) /\ [s EXCEPT ![k] = a] # <<>>
           /\ NamesOf([s EXCEPT ![k] = a]) = NamesOf(s)
           /\ \A name : Enabled(s, name) /\ (name = s[k].name => ~a.off)
                           => Enabled([s EXCEPT ![k] = a], name)
<1> DEFINE t == [s EXCEPT ![k] = a]
<1>1. s \in Seq(Account) /\ Len(s) \in Nat /\ DOMAIN s = 1 .. Len(s)
  BY Element DEF Good
<1>2. /\ t \in Seq(Account) /\ Len(t) = Len(s)
      /\ \A i \in 1 .. Len(s) : t[i] = IF i = k THEN a ELSE s[i]
  BY <1>1, Replaced
<1>3. EnabledAdmins(t) # {}
  OBVIOUS
<1> HIDE DEF t
<1>4. DOMAIN t = DOMAIN s /\ (t = <<>> <=> Len(t) = 0)
  <2>1. DOMAIN t = 1 .. Len(t) /\ (t = <<>> <=> Len(t) = 0)
    BY <1>2, Element
  <2> QED BY <1>1, <1>2, <2>1
<1>5. \A i \in DOMAIN t : t[i].name = s[i].name
  BY <1>1, <1>2, <1>4
<1>6. Distinct(t)
  BY <1>4, <1>5 DEF Good, Distinct
<1>7. Good(t)
  BY <1>2, <1>3, <1>6 DEF Good
<1>8. NamesOf(t) = NamesOf(s)
  BY <1>4, <1>5 DEF NamesOf
<1>9. ASSUME NEW name, Enabled(s, name), name = s[k].name => ~a.off PROVE Enabled(t, name)
  BY <1>1, <1>2, <1>4, <1>9 DEF Enabled
<1>10. t # <<>>
  BY <1>1, <1>2, <1>4
<1> QED BY <1>7, <1>8, <1>9, <1>10 DEF t

LEMMA GoodRemove ==
    ASSUME NEW s, Good(s), NEW k \in DOMAIN s, EnabledAdmins(RemoveAt(s, k)) # {}
    PROVE  /\ Good(RemoveAt(s, k)) /\ RemoveAt(s, k) # <<>>
           /\ NamesOf(RemoveAt(s, k)) \subseteq NamesOf(s)
           /\ \A name : Enabled(s, name) /\ name # s[k].name => Enabled(RemoveAt(s, k), name)
<1> DEFINE t == RemoveAt(s, k)
           At(i) == IF i < k THEN i ELSE i + 1
<1>1. /\ s \in Seq(Account) /\ Len(s) \in Nat /\ DOMAIN s = 1 .. Len(s) /\ k \in 1 .. Len(s)
      /\ Len(s) <= MaxAccounts /\ Distinct(s)
  BY Element DEF Good
<1>2. /\ t \in Seq(Account) /\ Len(t) = Len(s) - 1
      /\ \A i \in 1 .. Len(s) - 1 : t[i] = s[At(i)]
  BY <1>1, Removed
<1>3. EnabledAdmins(t) # {}
  OBVIOUS
<1> HIDE DEF t
<1>4. DOMAIN t = 1 .. Len(s) - 1 /\ (t = <<>> <=> Len(t) = 0)
  <2>1. DOMAIN t = 1 .. Len(t) /\ (t = <<>> <=> Len(t) = 0)
    BY <1>2, Element
  <2> QED BY <1>1, <1>2, <2>1
<1>5. \A i \in DOMAIN t : At(i) \in DOMAIN s /\ t[i] = s[At(i)]
  BY <1>1, <1>2, <1>4
<1>6. \A i, j \in DOMAIN t : At(i) = At(j) => i = j
  BY <1>1, <1>4
<1>7. \A j \in DOMAIN s : j # k => \E i \in DOMAIN t : At(i) = j
  <2> SUFFICES ASSUME NEW j \in DOMAIN s, j # k PROVE \E i \in DOMAIN t : At(i) = j
    OBVIOUS
  <2>1. CASE j < k
    <3>1. j \in DOMAIN t /\ At(j) = j
      BY <1>1, <1>4, <2>1
    <3> QED BY <3>1
  <2>2. CASE j > k
    <3>1. j - 1 \in DOMAIN t /\ At(j - 1) = j
      BY <1>1, <1>4, <2>2
    <3> QED BY <3>1
  <2>3. j < k \/ j > k
    BY <1>1
  <2> QED BY <2>1, <2>2, <2>3
<1> HIDE DEF At
<1>8. Distinct(t)
  BY <1>1, <1>5, <1>6 DEF Distinct
<1>9. Good(t)
  <2>1. Len(t) <= MaxAccounts
    BY <1>1, <1>2, SessionAssumption
  <2> QED BY <1>2, <1>3, <1>8, <2>1 DEF Good
<1>10. t # <<>>
  BY <1>3, EmptyGood
<1>11. NamesOf(t) \subseteq NamesOf(s)
  BY <1>5 DEF NamesOf
<1>12. ASSUME NEW name, Enabled(s, name), name # s[k].name PROVE Enabled(t, name)
  <2>1. PICK j \in DOMAIN s : s[j].name = name /\ ~s[j].off
    BY <1>12 DEF Enabled
  <2>2. PICK i \in DOMAIN t : At(i) = j
    BY <1>7, <1>12, <2>1
  <2> QED BY <1>5, <2>1, <2>2 DEF Enabled
<1> QED BY <1>9, <1>10, <1>11, <1>12 DEF t
-----------------------------------------------------------------------------
(* Jobs, delays, and the manager's role.                                   *)

LEMMA Jobs ==
    /\ NoJob.op = "none" /\ NoJob \notin NewAccountJob /\ NoJob \notin PasswordJob
    /\ \A j \in NewAccountJob : /\ j # NoJob /\ j \notin PasswordJob
                                /\ j.op \in {"setup", "add"} /\ j.account \in Account
    /\ \A j \in PasswordJob : /\ j # NoJob /\ j \notin NewAccountJob
                              /\ j.op \in {"login", "password"} /\ j.verifying \in BOOLEAN
                              /\ j.target \in 0 .. MaxAccounts /\ j.verify \in 0 .. MaxAccounts
                              /\ j.new \in Passwords /\ j.name \in Names
<1>1. NoJob.op = "none"
  BY DEF NoJob
<1>2. \A j \in NewAccountJob : j.op \in {"setup", "add"} /\ j.account \in Account
  <2> HIDE DEF Account
  <2> QED BY DEF NewAccountJob
<1>3. \A j \in PasswordJob : /\ j.op \in {"login", "password"} /\ j.verifying \in BOOLEAN
                             /\ j.target \in 0 .. MaxAccounts /\ j.verify \in 0 .. MaxAccounts
                             /\ j.new \in Passwords /\ j.name \in Names
  BY DEF PasswordJob
<1> HIDE DEF NoJob
<1> QED BY <1>1, <1>2, <1>3

LEMMA DelayIs ==
    ASSUME NEW n \in 0 .. MaxFailures
    PROVE  /\ Delay(n) \in 0 .. MaxDelay
           /\ n < FreeFailures => Delay(n) = 0
           /\ Delay(0) = 0
<1>1. /\ FreeFailures \in Nat \ {0} /\ MaxDelay \in Nat /\ BaseDelay \in Nat /\ n \in Nat
  BY SessionAssumption
<1>2. CASE n < FreeFailures
  BY <1>1, <1>2 DEF Delay
<1>3. CASE n >= FreeFailures
  <2> DEFINE d == BaseDelay * 2 ^ (n - FreeFailures)
  <2>1. Delay(n) = IF d \in 0 .. MaxDelay THEN d ELSE MaxDelay
    BY <1>1, <1>3 DEF Delay
  <2> HIDE DEF d
  <2>2. Delay(n) \in 0 .. MaxDelay
    BY <1>1, <2>1
  <2> QED BY <1>1, <1>3, <2>2 DEF Delay
<1> QED BY <1>1, <1>2, <1>3

\* Who asked is the user of the session, and an enabled administrator.
LEMMA AdministratorIs ==
    ASSUME TypeOK, Good(database), SessionHasAccount, Administrator
    PROVE  /\ ~locked /\ session # NoOne /\ Enabled(database, session)
           /\ Index(database, session) \in EnabledAdmins(database)
           /\ session \in {database[i].name : i \in EnabledAdmins(database)}
<1>1. ~locked
  BY DEF Administrator
<1>2. PICK i \in DOMAIN database : database[i].name = session /\ database[i].admin
  BY DEF Administrator
<1>3. database \in Seq(Account) /\ Distinct(database)
  BY DEF Good
<1>4. session # NoOne
  BY <1>2, <1>3, Element
<1>5. PICK j \in DOMAIN database : database[j].name = session /\ ~database[j].off
  BY <1>4 DEF SessionHasAccount, Enabled
<1>6. i = j
  BY <1>2, <1>3, <1>5 DEF Distinct
<1>7. i \in EnabledAdmins(database)
  BY <1>2, <1>5, <1>6 DEF EnabledAdmins
<1>8. Index(database, session) = i
  BY <1>2, <1>3, IndexIs
<1> QED BY <1>1, <1>2, <1>4, <1>5, <1>7, <1>8 DEF Enabled

-----------------------------------------------------------------------------
(* What a step that leaves some variables alone keeps.                     *)

LEMMA CopiesKept ==
    ASSUME Copies, UNCHANGED <<database, saved, machine, broken, commit>>
    PROVE  Copies'
BY DEF Copies, Published, saved, machine

LEMMA NothingToCommit ==
    ASSUME commit' = NoCommit
    PROVE  CommitSound'
BY DEF CommitSound

LEMMA NothingToDo ==
    ASSUME job' = NoJob
    PROVE  JobStillAuthorized' /\ JobSound' /\ GuessesDelayed'
BY Jobs DEF JobStillAuthorized, JobSound, GuessesDelayed

LEMMA CommitKept ==
    ASSUME CommitSound, UNCHANGED <<database, saved, machine, broken, session, manager, commit>>
    PROVE  CommitSound'
BY DEF CommitSound, saved, machine

LEMMA JobKept ==
    ASSUME JobStillAuthorized, JobSound, job # NoJob => manager' # Gone,
           UNCHANGED <<database, saved, broken, session, locked, job, commit>>
    PROVE  JobStillAuthorized' /\ JobSound'
<1>1. JobStillAuthorized'
  BY DEF JobStillAuthorized
<1>2. JobSound'
  BY DEF JobSound, saved, NameTaken
<1> QED BY <1>1, <1>2

LEMMA AccountKept ==
    ASSUME SessionHasAccount, UNCHANGED <<database, session>>
    PROVE  SessionHasAccount'
BY DEF SessionHasAccount

LEMMA ProcessesKept ==
    ASSUME OnlySessionProcesses, session' = session,
           \A p \in Process : owner'[p] \in {NoOne, Gone} \/ \E q \in Process : owner'[p] = owner[q]
    PROVE  OnlySessionProcesses'
BY DEF OnlySessionProcesses

\* The wait, for a step that neither verifies nor begins to.
LEMMA DelayKept ==
    ASSUME TypeOK, Delayed, UNCHANGED wait, job' \in {job, NoJob}
    PROVE  Delayed'
<1>1. failures \in 0 .. MaxFailures /\ UNCHANGED <<failures, retryDelay, since>>
  BY DEF TypeOK, wait
<1>2. GuessesDelayed'
  BY <1>1, Jobs DEF Delayed, GuessesDelayed
<1> QED BY <1>1, <1>2 DEF Delayed

\* After any success.
LEMMA Forgiven ==
    ASSUME ForgiveFailures
    PROVE  /\ failures' \in 0 .. MaxFailures /\ retryDelay' \in 0 .. MaxDelay
           /\ since' \in 0 .. MaxDelay /\ Delayed'
<1>1. failures' = 0 /\ retryDelay' = 0 /\ since' = MaxDelay
  BY DEF ForgiveFailures
<1>2. 0 \in 0 .. MaxFailures /\ 0 \in 0 .. MaxDelay /\ MaxDelay \in 0 .. MaxDelay
  BY SessionAssumption
<1>3. Delay(0) = 0 /\ MaxDelay >= 0
  BY <1>2, DelayIs
<1>4. Delay(failures') = 0
  BY <1>1, <1>3
<1> QED BY <1>1, <1>2, <1>3, <1>4 DEF Delayed, GuessesDelayed
-----------------------------------------------------------------------------
(* Power, processes and time.                                              *)

LEMMA InitIInv == Init => IInv
<1> SUFFICES ASSUME Init PROVE IInv
  OBVIOUS
<1>1. Empty \in Tree /\ Empty.accounts = <<>> /\ Empty.homes = {}
  BY EmptySeq DEF Empty, Tree
<1>2. Cold \in [Process -> Names \cup {NoOne, Gone}] /\ \A p \in Process : Cold[p] \in {NoOne, Gone}
  BY DEF Cold
<1>3. 0 \in 0 .. MaxFailures /\ 0 \in 0 .. MaxDelay /\ MaxDelay \in 0 .. MaxDelay
      /\ Len(<<>>) <= MaxAccounts /\ <<>> \in Seq(Account)
  BY EmptySeq, SessionAssumption
<1>4. TypeOK
  BY <1>1, <1>2, <1>3 DEF Init, TypeOK
<1>5. Copies
  BY <1>1, EmptyGood DEF Init, Copies, Published, Descends
<1>6. SessionHasAccount /\ OnlySessionProcesses
  BY <1>2 DEF Init, SessionHasAccount, OnlySessionProcesses
<1>7. JobStillAuthorized /\ JobSound /\ GuessesDelayed
  BY Jobs DEF Init, JobStillAuthorized, JobSound, GuessesDelayed
<1>8. CommitSound
  BY DEF Init, CommitSound
<1>9. Delayed
  <2>1. Delay(0) = 0
    BY <1>3, DelayIs
  <2>2. failures = 0 /\ since = MaxDelay /\ MaxDelay >= 0
    BY <1>3 DEF Init
  <2> QED BY <1>7, <2>1, <2>2 DEF Delayed
<1> QED BY <1>4, <1>5, <1>6, <1>7, <1>8, <1>9 DEF IInv, Working

LEMMA RebootIInv == ASSUME IInv, Reboot PROVE IInv'
<1>1. Empty \in Tree /\ Empty.accounts = <<>> /\ Empty.homes = {}
  BY EmptySeq DEF Empty, Tree
<1>2. Cold \in [Process -> Names \cup {NoOne, Gone}] /\ \A p \in Process : Cold[p] \in {NoOne, Gone}
  BY DEF Cold
<1>3. stable \in Tree /\ Good(stable.accounts) /\ (~disk => stable = Empty)
  BY DEF IInv, TypeOK, Copies
<1>4. /\ session' = NoOne /\ locked' = FALSE /\ manager' = Gone /\ owner' = Cold
      /\ job' = NoJob /\ commit' = NoCommit /\ stable' = stable /\ disk' = disk
  BY DEF Reboot
<1>5. Good(database') /\ Good(volume'.accounts) /\ volume' \in Tree
      /\ broken' \in BOOLEAN /\ frozen' \in BOOLEAN
  BY <1>1, <1>3, EmptyGood DEF Reboot
<1>6. TypeOK'
  <2>1. ForgiveFailures
    BY DEF Reboot
  <2>2. database' \in Seq(Account) /\ Len(database') <= MaxAccounts
    BY <1>5 DEF Good
  <2> QED BY <1>2, <1>3, <1>4, <1>5, <2>1, <2>2, Forgiven DEF IInv, TypeOK
<1>7. Copies'
  <2>1. Published'
    BY <1>1, <1>3, <1>4 DEF Reboot, Published
  <2>2. frozen' => disk'
    BY <1>4 DEF Reboot
  <2>3. ~frozen' => volume' = stable'
    BY <1>4 DEF Reboot
  <2>4. Descends(stable, stable)
    <3>1. stable.accounts # <<>> => NamesOf(stable.accounts) # {}
      BY <1>3, Founded
    <3> QED BY <3>1 DEF Descends
  <2>5. ~broken' /\ ~frozen' => volume'.accounts = database'
    BY DEF Reboot
  <2> QED BY <1>3, <1>4, <1>5, <2>1, <2>2, <2>3, <2>4, <2>5 DEF Copies
<1>8. SessionHasAccount' /\ OnlySessionProcesses'
  BY <1>2, <1>4 DEF SessionHasAccount, OnlySessionProcesses
<1>9. Delayed'
  BY Forgiven DEF Reboot
<1> QED BY <1>4, <1>6, <1>7, <1>8, <1>9, NothingToDo, NothingToCommit DEF IInv, Working

LEMMA TimePassesIInv == ASSUME IInv, TimePasses PROVE IInv'
<1>1. /\ since \in 0 .. MaxDelay /\ since < MaxDelay /\ since' = since + 1
      /\ failures \in 0 .. MaxFailures
      /\ UNCHANGED <<database, saved, machine, broken, session, locked, manager,
                     owner, job, commit, failures, retryDelay>>
  BY DEF IInv, TypeOK, TimePasses
<1>2. MaxDelay \in Nat /\ Delay(failures) \in 0 .. MaxDelay
  BY <1>1, DelayIs, SessionAssumption
<1>3. since' \in 0 .. MaxDelay /\ (since >= Delay(failures) => since' >= Delay(failures))
  BY <1>1, <1>2
<1>4. TypeOK'
  BY <1>1, <1>3 DEF IInv, TypeOK, saved, machine
<1>5. Delayed'
  BY <1>1, <1>3 DEF IInv, Working, Delayed, GuessesDelayed
<1>6. OnlySessionProcesses' /\ SessionHasAccount'
  BY <1>1, AccountKept DEF IInv, Working, OnlySessionProcesses
<1>7. JobStillAuthorized' /\ JobSound'
  BY <1>1, JobKept DEF IInv, Working, JobStillAuthorized
<1> QED BY <1>1, <1>4, <1>5, <1>6, <1>7, CopiesKept, CommitKept DEF IInv, Working

LEMMA IdleLockIInv == ASSUME IInv, IdleLock PROVE IInv'
<1>1. /\ locked' = TRUE /\ job' = NoJob
      /\ UNCHANGED <<database, saved, machine, broken, session, manager, owner, commit, wait>>
  BY DEF IdleLock, LockSession
<1>2. TypeOK'
  BY <1>1 DEF IInv, TypeOK, saved, machine, wait
<1>3. OnlySessionProcesses' /\ SessionHasAccount'
  BY <1>1, AccountKept DEF IInv, Working, OnlySessionProcesses
<1> QED BY <1>1, <1>2, <1>3, CopiesKept, CommitKept, NothingToDo, DelayKept DEF IInv, Working

\* A step in which only processes come and go, or find their manager.
LEMMA OnlyProcesses ==
    ASSUME IInv, Free, job # NoJob => manager' # Gone,
           owner' \in [Process -> Names \cup {NoOne, Gone}], manager' \in Process \cup {Gone},
           \A p \in Process : owner'[p] = Gone \/ \E q \in Process : owner'[p] = owner[q],
           UNCHANGED <<database, saved, machine, broken, session, locked, job, commit, wait>>
    PROVE  IInv'
<1>1. TypeOK'
  BY DEF IInv, TypeOK, saved, machine, wait
<1>2. CommitSound'
  BY NothingToCommit DEF Free
<1> QED BY <1>1, <1>2, CopiesKept, AccountKept, ProcessesKept, JobKept, DelayKept
        DEF IInv, Working

LEMMA StartDesktopIInv == ASSUME IInv, StartDesktop PROVE IInv'
<1>1. /\ owner \in [Process -> Names \cup {NoOne, Gone}] /\ manager \in Process \cup {Gone}
      /\ job # NoJob => manager # Gone
      /\ "init" \in Process /\ "desktop" \in Process
  BY DEF IInv, TypeOK, Working, JobStillAuthorized, Process
<1>2. owner' = [owner EXCEPT !["desktop"] = owner["init"]] /\ Free
      /\ UNCHANGED <<database, saved, machine, broken, session, locked, manager, job, commit, wait>>
  BY DEF StartDesktop
<1>3. owner' \in [Process -> Names \cup {NoOne, Gone}]
      /\ \A p \in Process : \E q \in Process : owner'[p] = owner[q]
  BY <1>1, <1>2
<1> QED BY <1>1, <1>2, <1>3, OnlyProcesses

LEMMA StartAppIInv == ASSUME IInv, NEW p \in Process, StartApp(p) PROVE IInv'
<1>1. /\ owner \in [Process -> Names \cup {NoOne, Gone}] /\ manager \in Process \cup {Gone}
      /\ job # NoJob => manager # Gone
      /\ "app" \in Process
  BY DEF IInv, TypeOK, Working, JobStillAuthorized, Process
<1>2. owner' = [owner EXCEPT !["app"] = owner[p]] /\ Free
      /\ UNCHANGED <<database, saved, machine, broken, session, locked, manager, job, commit, wait>>
  BY DEF StartApp
<1>3. owner' \in [Process -> Names \cup {NoOne, Gone}]
      /\ \A r \in Process : \E q \in Process : owner'[r] = owner[q]
  BY <1>1, <1>2
<1> QED BY <1>1, <1>2, <1>3, OnlyProcesses

LEMMA ExitIInv == ASSUME IInv, NEW p \in Process, Exit(p) PROVE IInv'
<1>1. /\ owner \in [Process -> Names \cup {NoOne, Gone}] /\ manager \in Process \cup {Gone}
      /\ job # NoJob => manager # Gone
  BY DEF IInv, TypeOK, Working, JobStillAuthorized
<1>2. Free /\ UNCHANGED <<database, saved, machine, broken, session, commit, wait>>
  BY DEF Exit
<1>3. /\ owner' \in [Process -> Names \cup {NoOne, Gone}]
      /\ \A r \in Process : owner'[r] = Gone \/ owner'[r] = owner[r]
  BY <1>1 DEF Exit
<1>4. CASE p # manager
  <2>1. UNCHANGED <<locked, manager, job>>
    BY <1>4 DEF Exit
  <2> QED BY <1>1, <1>2, <1>3, <2>1, OnlyProcesses
<1>5. CASE p = manager
  <2>1. manager' = Gone /\ job' = NoJob /\ locked' \in {locked, TRUE}
    BY <1>5 DEF Exit, LockSession
  <2>2. TypeOK'
    BY <1>2, <1>3, <2>1 DEF IInv, TypeOK, saved, machine, wait
  <2>3. CommitSound'
    BY <1>2, NothingToCommit DEF Free
  <2> QED BY <1>2, <1>3, <2>1, <2>2, <2>3, CopiesKept, AccountKept, ProcessesKept,
             NothingToDo, DelayKept DEF IInv, Working
<1> QED BY <1>4, <1>5

LEMMA ClaimIInv == ASSUME IInv, NEW p \in Process, Claim(p) PROVE IInv'
<1>1. /\ owner \in [Process -> Names \cup {NoOne, Gone}] /\ p # Gone
  BY DEF IInv, TypeOK, Process, Gone
<1>2. Free /\ manager' = p
      /\ UNCHANGED <<database, saved, machine, broken, session, locked, owner, job, commit, wait>>
  BY DEF Claim
<1> QED BY <1>1, <1>2, OnlyProcesses

LEMMA SyncIInv == ASSUME IInv, NEW p \in Process, Sync(p) PROVE IInv'
<1>1. /\ commit = NoCommit /\ disk /\ ~frozen /\ stable' = volume
      /\ UNCHANGED <<database, volume, machine, broken, session, locked, manager,
                     owner, job, commit, wait>>
  BY DEF Sync, Free, Writable
<1>2. volume \in Tree /\ Good(volume.accounts) /\ UNCHANGED <<disk, frozen>>
  BY <1>1 DEF IInv, TypeOK, Copies, machine
<1>3. TypeOK'
  BY <1>1, <1>2 DEF IInv, TypeOK, machine, wait
<1>4. Copies'
  <2>1. ~broken => volume.accounts = database
    BY <1>1 DEF IInv, Copies
  <2>2. Published'
    BY <1>1, <1>2, <2>1 DEF Published
  <2>3. Descends(volume, volume)
    <3>1. volume.accounts # <<>> => NamesOf(volume.accounts) # {}
      BY <1>2, Founded
    <3> QED BY <3>1 DEF Descends
  <2> QED BY <1>1, <1>2, <2>1, <2>2, <2>3 DEF IInv, Copies
<1>5. OnlySessionProcesses' /\ SessionHasAccount'
  BY <1>1, AccountKept DEF IInv, Working, OnlySessionProcesses
<1>6. JobStillAuthorized' /\ JobSound'
  BY <1>1 DEF IInv, Working, JobStillAuthorized, JobSound, NameTaken
<1>7. CommitSound'
  BY <1>1, NothingToCommit
<1> QED BY <1>1, <1>3, <1>4, <1>5, <1>6, <1>7, DelayKept DEF IInv, Working
-----------------------------------------------------------------------------
(* begin_job.                                                              *)

\* A step of the session manager that changes only the job, and perhaps the wait.
LEMMA OnlyJob ==
    ASSUME IInv, Free, job' \in {NoJob} \cup NewAccountJob \cup PasswordJob,
           UNCHANGED <<database, saved, machine, broken, session, locked, manager, owner, commit>>,
           JobStillAuthorized', JobSound', Delayed',
           failures' \in 0 .. MaxFailures, retryDelay' \in 0 .. MaxDelay, since' \in 0 .. MaxDelay
    PROVE  IInv'
<1>1. TypeOK'
  BY DEF IInv, TypeOK, saved, machine
<1>2. OnlySessionProcesses'
  BY DEF IInv, Working, OnlySessionProcesses
<1>3. CommitSound'
  BY NothingToCommit DEF Free
<1> QED BY <1>1, <1>2, <1>3, CopiesKept, AccountKept DEF IInv, Working

LEMMA BeginNewAccountIInv ==
    ASSUME IInv, NEW op \in {"setup", "add"}, NEW name \in Names, NEW admin \in BOOLEAN,
           NEW password \in Passwords, BeginNewAccount(op, name, admin, password)
    PROVE  IInv'
<1> DEFINE a == [name |-> name, admin |-> admin, off |-> FALSE, password |-> password]
<1>1. /\ Free /\ manager # Gone /\ ~broken /\ Len(database) < MaxAccounts /\ ~NameTaken(name)
      /\ job' = [op |-> op, account |-> a]
      /\ UNCHANGED <<database, saved, machine, broken, session, locked, manager, owner, commit, wait>>
  BY DEF BeginNewAccount, Manages
<1>2. a \in Account /\ a.name = name /\ a.off = FALSE /\ a.admin = admin
  BY DEF Account
<1>3. op = "setup" => database = <<>> /\ admin
  BY DEF BeginNewAccount
<1>4. op = "add" => Administrator
  BY DEF BeginNewAccount
<1>5. TypeOK /\ Good(database) /\ SessionHasAccount
  BY DEF IInv, Copies, Working
<1> HIDE DEF a
<1>6. job' \in NewAccountJob /\ job'.op = op /\ job'.account = a
  BY <1>1, <1>2 DEF NewAccountJob
<1>7. database = <<>> => session = NoOne
  <2>1. database = <<>> => ~Enabled(database, session)
    BY EmptySeq DEF Enabled
  <2> QED BY <1>5, <2>1 DEF SessionHasAccount
<1>8. JobStillAuthorized'
  <2>1. op = "add" => ~locked /\ session \in {database[i].name : i \in EnabledAdmins(database)}
    BY <1>4, <1>5, AdministratorIs
  <2> QED BY <1>1, <1>3, <1>6, <1>7, <2>1 DEF JobStillAuthorized
<1>9. JobSound'
  <2>1. NameTaken(name)' = NameTaken(name)
    BY <1>1 DEF NameTaken, saved
  <2>2. job' \notin PasswordJob
    BY <1>6, Jobs
  <2> QED BY <1>1, <1>2, <1>3, <1>6, <2>1, <2>2 DEF JobSound
<1>10. Delayed'
  <2>1. job' \notin PasswordJob
    BY <1>6, Jobs
  <2> QED BY <1>1, <2>1 DEF IInv, Working, Delayed, GuessesDelayed, wait
<1>11. UNCHANGED wait
  BY <1>1
<1> QED BY <1>1, <1>6, <1>8, <1>9, <1>10, <1>11, OnlyJob DEF IInv, TypeOK, wait

LEMMA BeginLoginIInv ==
    ASSUME IInv, NEW name \in Names, NEW guess \in Passwords, BeginLogin(name, guess)
    PROVE  IInv'
<1>1. /\ Free /\ manager # Gone /\ ~broken /\ database # <<>> /\ (session = NoOne \/ locked)
      /\ since >= retryDelay /\ retryDelay' = 0
      /\ job' = [op |-> "login", name |-> name, verifying |-> TRUE,
                 target |-> LoginTarget(name), verify |-> LoginTarget(name),
                 guess |-> guess, new |-> guess]
      /\ UNCHANGED <<database, saved, machine, broken, session, locked, manager,
                     owner, commit, failures, since>>
  BY DEF BeginLogin, Manages, CooledDown
<1>2. LoginTarget(name) \in 0 .. MaxAccounts
  <2>1. database \in Seq(Account) /\ Len(database) <= MaxAccounts /\ Len(database) \in Nat
    BY Element DEF IInv, TypeOK
  <2>2. Index(database, name) \in 0 .. Len(database)
    BY <2>1, IndexIs
  <2> QED BY <2>1, <2>2, SessionAssumption DEF LoginTarget
<1>3. /\ job' \in PasswordJob /\ job'.op = "login" /\ job'.verifying /\ job'.name = name
      /\ job'.target = LoginTarget(name) /\ job'.verify = LoginTarget(name)
  BY <1>1, <1>2 DEF PasswordJob
<1>4. JobStillAuthorized'
  BY <1>1, <1>3 DEF JobStillAuthorized, LoginTarget
<1>5. JobSound'
  BY <1>1, <1>3, Jobs DEF JobSound
<1>6. /\ failures \in 0 .. MaxFailures /\ since \in 0 .. MaxDelay /\ retryDelay \in 0 .. MaxDelay
      /\ 0 \in 0 .. MaxDelay /\ (since >= Delay(failures) \/ retryDelay = Delay(failures))
  BY SessionAssumption DEF IInv, TypeOK, Working, Delayed
<1>7. since >= Delay(failures)
  BY <1>1, <1>6
<1>8. Delayed'
  BY <1>1, <1>7 DEF Delayed, GuessesDelayed
<1> QED BY <1>1, <1>3, <1>4, <1>5, <1>6, <1>8, OnlyJob

LEMMA BeginPasswordIInv ==
    ASSUME IInv, NEW name \in Names, NEW guess \in Passwords, NEW new \in Passwords,
           BeginPassword(name, guess, new)
    PROVE  IInv'
<1>1. /\ Free /\ manager # Gone /\ ~broken /\ ~locked
      /\ Index(database, session) # 0 /\ Index(database, name) # 0
      /\ (name = session \/ Administrator)
      /\ since >= retryDelay /\ retryDelay' = 0
      /\ job' = [op |-> "password", name |-> name, verifying |-> TRUE,
                 target |-> Index(database, name), verify |-> Index(database, session),
                 guess |-> guess, new |-> new]
      /\ UNCHANGED <<database, saved, machine, broken, session, locked, manager,
                     owner, commit, failures, since>>
  BY DEF BeginPassword, Manages, CooledDown
<1>2. /\ Index(database, name) \in 0 .. MaxAccounts /\ Index(database, session) \in 0 .. MaxAccounts
      /\ session # NoOne
  <2>1. database \in Seq(Account) /\ Len(database) <= MaxAccounts /\ Len(database) \in Nat
    BY Element DEF IInv, TypeOK
  <2>2. Index(database, name) \in 0 .. Len(database) /\ Index(database, session) \in 0 .. Len(database)
    BY <2>1, IndexIs
  <2>3. session # NoOne
    BY <1>1, <2>1, IndexIs, Element
  <2> QED BY <2>1, <2>2, <2>3, SessionAssumption
<1>3. /\ job' \in PasswordJob /\ job'.op = "password" /\ job'.verifying /\ job'.name = name
      /\ job'.target = Index(database, name) /\ job'.verify = Index(database, session)
  BY <1>1, <1>2 DEF PasswordJob
<1>4. JobStillAuthorized'
  <2>1. Administrator => Index(database, session) \in EnabledAdmins(database)
    BY AdministratorIs DEF IInv, Copies, Working
  <2> QED BY <1>1, <1>2, <1>3, <2>1 DEF JobStillAuthorized
<1>5. JobSound'
  BY <1>1, <1>3, Jobs DEF JobSound
<1>6. /\ failures \in 0 .. MaxFailures /\ since \in 0 .. MaxDelay /\ retryDelay \in 0 .. MaxDelay
      /\ 0 \in 0 .. MaxDelay /\ (since >= Delay(failures) \/ retryDelay = Delay(failures))
  BY SessionAssumption DEF IInv, TypeOK, Working, Delayed
<1>7. since >= Delay(failures)
  BY <1>1, <1>6
<1>8. Delayed'
  BY <1>1, <1>7 DEF Delayed, GuessesDelayed
<1> QED BY <1>1, <1>3, <1>4, <1>5, <1>6, <1>8, OnlyJob

LEMMA JobEnds ==
    ASSUME IInv, Free, job' = NoJob,
           UNCHANGED <<database, saved, machine, broken, session, locked, manager, owner, commit, wait>>
    PROVE  IInv'
<1>1. Delayed' /\ UNCHANGED wait
  BY DelayKept DEF IInv, Working
<1> QED BY <1>1, OnlyJob, NothingToDo DEF IInv, TypeOK, wait

LEMMA CancelIInv == ASSUME IInv, Cancel PROVE IInv'
BY JobEnds DEF Cancel, Manages

LEMMA WriteFailsIInv == ASSUME IInv, WriteFails PROVE IInv'
BY JobEnds DEF WriteFails, Hashed, Manages
-----------------------------------------------------------------------------
(* poll_job, when a hash is complete.                                      *)

LEMMA VerificationFailsIInv == ASSUME IInv, VerificationFails PROVE IInv'
<1>1. /\ Free /\ job' = NoJob
      /\ UNCHANGED <<database, saved, machine, broken, session, locked, manager, owner, commit>>
  BY DEF VerificationFails, Verifying, Manages
<1>2. /\ failures \in 0 .. MaxFailures /\ retryDelay \in 0 .. MaxDelay /\ since \in 0 .. MaxDelay
      /\ MaxFailures \in Nat /\ FreeFailures \in Nat /\ MaxDelay \in Nat /\ 0 \in 0 .. MaxDelay
  BY SessionAssumption DEF IInv, TypeOK
<1>3. failures' = CountFailure /\ CountFailure \in 0 .. MaxFailures
  BY <1>2 DEF VerificationFails, CountFailure
<1>4. Delay(failures') \in 0 .. MaxDelay /\ (failures' < FreeFailures => Delay(failures') = 0)
  BY <1>3, DelayIs
<1>5. CASE CountFailure >= FreeFailures
  <2>1. retryDelay' = Delay(failures') /\ since' = 0
    BY <1>3, <1>5 DEF VerificationFails
  <2>2. Delayed'
    BY <1>1, <2>1, NothingToDo DEF Delayed
  <2> QED BY <1>1, <1>2, <1>3, <1>4, <2>1, <2>2, NothingToDo, OnlyJob
<1>6. CASE CountFailure < FreeFailures
  <2>1. UNCHANGED <<retryDelay, since>>
    BY <1>2, <1>3, <1>6 DEF VerificationFails
  <2>2. since' >= Delay(failures')
    BY <1>2, <1>3, <1>4, <1>6, <2>1
  <2>3. Delayed'
    BY <1>1, <2>2, NothingToDo DEF Delayed
  <2> QED BY <1>1, <1>2, <1>3, <2>1, <2>3, NothingToDo, OnlyJob
<1> QED BY <1>2, <1>3, <1>5, <1>6

\* The user who logs in is the one the job named, and no other than the one
\* who locked the session.
LEMMA LoginIs ==
    ASSUME IInv, LoginSucceeds
    PROVE  /\ job.target \in DOMAIN database /\ ~database[job.target].off
           /\ database[job.target].password = job.guess
           /\ session' = database[job.target].name /\ session' \in Names
           /\ session \in {session', NoOne}
<1>1. /\ job \in PasswordJob /\ job.op = "login" /\ job.verify \in DOMAIN database
      /\ ~database[job.verify].off /\ database[job.verify].password = job.guess
      /\ session' = database[job.target].name
  BY DEF LoginSucceeds, Verifying, Matches, StartSession
<1>2. job.verify = job.target
  BY <1>1 DEF IInv, Working, JobSound
<1>3. database \in Seq(Account)
  BY DEF IInv, TypeOK
<1>4. session' \in Names
  BY <1>1, <1>2, <1>3, Element
<1>5. job.target # 0
  <2>1. DOMAIN database = 1 .. Len(database) /\ Len(database) \in Nat
    BY <1>3, Element
  <2> QED BY <1>1, <1>2, <2>1
<1>6. session # NoOne => session = session'
  <2>1. /\ session = NoOne \/ locked
        /\ job.target \in IF locked /\ job.name # session THEN {0} ELSE {Index(database, job.name)}
    BY <1>1 DEF IInv, Working, JobStillAuthorized
  <2>2. session # NoOne => job.target = Index(database, session)
    BY <1>5, <2>1
  <2> QED BY <1>1, <1>3, <1>5, <2>2, IndexIs
<1> QED BY <1>1, <1>2, <1>4, <1>6

LEMMA LoginSucceedsIInv == ASSUME IInv, LoginSucceeds PROVE IInv'
<1>1. /\ commit = NoCommit /\ manager # Gone /\ job' = NoJob /\ ForgiveFailures
      /\ locked' = FALSE /\ session' = database[job.target].name
      /\ owner' = [owner EXCEPT ![manager] = session', !["init"] = session']
      /\ UNCHANGED <<database, saved, machine, broken, manager, commit>>
  BY DEF LoginSucceeds, Verifying, Manages, Free, StartSession
<1>2. /\ job.target \in DOMAIN database /\ ~database[job.target].off
      /\ session' \in Names /\ session \in {session', NoOne}
  BY LoginIs
<1>3. /\ owner \in [Process -> Names \cup {NoOne, Gone}] /\ manager \in Process \cup {Gone}
      /\ \A p \in Process : owner[p] \in {session, NoOne, Gone}
      /\ "init" \in Process
  BY DEF IInv, Working, TypeOK, OnlySessionProcesses, Process
<1>4. owner' \in [Process -> Names \cup {NoOne, Gone}]
      /\ \A p \in Process : owner'[p] \in {session', NoOne, Gone}
  BY <1>1, <1>2, <1>3
<1>5. TypeOK'
  BY <1>1, <1>2, <1>4, Forgiven DEF IInv, TypeOK, saved, machine
<1>6. SessionHasAccount'
  BY <1>1, <1>2 DEF SessionHasAccount, Enabled
<1>7. OnlySessionProcesses'
  BY <1>4 DEF OnlySessionProcesses
<1>8. CommitSound'
  BY <1>1, NothingToCommit
<1> QED BY <1>1, <1>5, <1>6, <1>7, <1>8, CopiesKept, NothingToDo, Forgiven DEF IInv, Working

LEMMA PasswordVerifiedIInv == ASSUME IInv, PasswordVerified PROVE IInv'
<1>1. /\ Free /\ manager # Gone /\ job \in PasswordJob /\ job.verifying /\ job.op = "password"
      /\ ForgiveFailures /\ job' \in {[job EXCEPT !.verifying = FALSE], NoJob}
      /\ UNCHANGED <<database, saved, machine, broken, session, locked, manager, owner, commit>>
  BY DEF PasswordVerified, Verifying, Manages
<1>2. /\ failures' \in 0 .. MaxFailures /\ retryDelay' \in 0 .. MaxDelay
      /\ since' \in 0 .. MaxDelay /\ Delayed'
  BY <1>1, Forgiven
<1>3. CASE job' = NoJob
  BY <1>1, <1>2, <1>3, NothingToDo, OnlyJob
<1>4. CASE job' = [job EXCEPT !.verifying = FALSE]
  <2>1. /\ job' \in PasswordJob /\ job'.op = job.op /\ ~job'.verifying
        /\ job'.target = job.target /\ job'.verify = job.verify /\ job'.name = job.name
    BY <1>1, <1>4 DEF PasswordJob
  <2>2. JobStillAuthorized'
    BY <1>1, <2>1 DEF IInv, Working, JobStillAuthorized
  <2>3. JobSound'
    <3>1. job # NoJob /\ job' \notin NewAccountJob
      BY <1>1, <2>1, Jobs
    <3> QED BY <1>1, <2>1, <3>1 DEF IInv, Working, JobSound
  <2> QED BY <1>1, <1>2, <2>1, <2>2, <2>3, OnlyJob
<1> QED BY <1>1, <1>3, <1>4
-----------------------------------------------------------------------------
(* persist_candidate, up to store_sync.                                    *)

LEMMA WriteDescends ==
    ASSUME Copies, ~frozen, ~broken, NEW v, volume.homes \subseteq v.homes,
           database # <<>> => NamesOf(database) \cap NamesOf(v.accounts) # {},
           (NamesOf(v.accounts) \ NamesOf(database)) \cap volume.homes = {}
    PROVE  Descends(v, stable)
<1>1. CASE disk
  <2>1. stable.accounts = database /\ stable.homes \subseteq volume.homes
    BY <1>1 DEF Copies, Published, Descends
  <2> QED BY <2>1 DEF Descends
<1>2. CASE ~disk
  <2>1. stable.accounts = <<>> /\ stable.homes = {}
    BY <1>2 DEF Copies, Empty
  <2> QED BY <2>1 DEF Descends
<1> QED BY <1>1, <1>2

LEMMA Written ==
    ASSUME IInv, manager # Gone, ~broken,
           NEW op \in {"setup", "add", "password", "update", "remove"},
           NEW accounts, Good(accounts), Write(op, accounts), commit = NoCommit,
           volume' \in Tree, volume'.accounts = accounts, volume.homes \subseteq volume'.homes,
           database # <<>> => NamesOf(database) \cap NamesOf(accounts) # {},
           (NamesOf(accounts) \ NamesOf(database)) \cap volume.homes = {},
           op = "setup" => /\ database = <<>> /\ session = NoOne /\ Len(accounts) = 1
                           /\ ~accounts[1].off,
           op # "setup" => session # NoOne /\ Enabled(accounts, session)
    PROVE  IInv'
<1>1. /\ ~frozen /\ commit' = [op |-> op, accounts |-> accounts]
      /\ UNCHANGED <<database, stable, machine, broken, session, locked, manager, owner, job, wait>>
  BY DEF Write, Writable
<1>2. /\ commit' \in Commit /\ commit' # NoCommit /\ commit'.op = op
      /\ commit'.accounts = accounts
  BY <1>1 DEF Commit, NoCommit, Good
<1>3. TypeOK'
  BY <1>1, <1>2 DEF IInv, TypeOK, machine, wait
<1>4. Descends(volume', stable)
  BY <1>1, WriteDescends DEF IInv
<1>5. Copies'
  BY <1>1, <1>2, <1>4 DEF IInv, Copies, Published, machine
<1>6. CommitSound'
  BY <1>1, <1>2 DEF CommitSound, machine
<1>7. JobStillAuthorized' /\ JobSound'
  <2>1. JobStillAuthorized'
    BY <1>1 DEF IInv, Working, JobStillAuthorized
  <2>2. JobSound'
    BY <1>1, <1>2 DEF IInv, Working, JobSound
  <2> QED BY <2>1, <2>2
<1>8. OnlySessionProcesses' /\ SessionHasAccount'
  BY <1>1, AccountKept DEF IInv, Working, OnlySessionProcesses
<1> QED BY <1>1, <1>3, <1>5, <1>6, <1>7, <1>8, DelayKept DEF IInv, Working

LEMMA WriteAccountIInv == ASSUME IInv, WriteAccount PROVE IInv'
<1> DEFINE accounts == Append(database, job.account)
<1>1. /\ commit = NoCommit /\ manager # Gone /\ job \in NewAccountJob
      /\ Write(job.op, accounts)
      /\ volume' = [accounts |-> accounts, homes |-> volume.homes \cup {job.account.name}]
  BY DEF WriteAccount, Hashed, Manages, Free
<1>2. /\ job # NoJob /\ job.op \in {"setup", "add"} /\ job.account \in Account
      /\ job.account.name \in Names
  <2>1. \A a \in Account : a.name \in Names
    BY DEF Account
  <2> QED BY <1>1, <2>1, Jobs
<1>3. /\ ~broken /\ ~job.account.off /\ (job.op = "setup" => job.account.admin)
      /\ Len(database) < MaxAccounts
      /\ Index(database, job.account.name) = 0 /\ job.account.name \notin volume.homes
  BY <1>1, <1>2 DEF IInv, Working, JobSound, NameTaken
<1>4. Good(database) /\ database \in Seq(Account) /\ volume \in Tree /\ SessionHasAccount
  BY DEF IInv, Copies, TypeOK, Working
<1>5. database = <<>> => job.op = "setup"
  <2>1. job.op = "add" => session \in {database[i].name : i \in EnabledAdmins(database)}
    BY DEF IInv, Working, JobStillAuthorized
  <2> QED BY <1>2, <2>1, EmptyGood
<1>6. /\ Good(accounts) /\ NamesOf(accounts) = NamesOf(database) \cup {job.account.name}
      /\ \A name : Enabled(database, name) => Enabled(accounts, name)
  <2>1. \A i \in DOMAIN database : database[i].name # job.account.name
    BY <1>3, <1>4, IndexIs
  <2> QED BY <1>2, <1>3, <1>4, <1>5, <2>1, GoodAppend
<1>7. database = <<>> => Len(accounts) = 1 /\ accounts[1] = job.account
  <2>1. /\ Len(accounts) = Len(database) + 1 /\ accounts[Len(database) + 1] = job.account
        /\ Len(<<>>) = 0
    BY <1>2, <1>4, Appended, EmptySeq
  <2> HIDE DEF accounts
  <2> QED BY <2>1
<1> HIDE DEF accounts
<1>8. volume' \in Tree /\ volume'.accounts = accounts /\ volume.homes \subseteq volume'.homes
  BY <1>1, <1>2, <1>4, <1>6 DEF Tree, Good
<1>9. database # <<>> => NamesOf(database) \cap NamesOf(accounts) # {}
  BY <1>4, <1>6, Founded
<1>10. (NamesOf(accounts) \ NamesOf(database)) \cap volume.homes = {}
  BY <1>3, <1>6
<1>11. job.op = "setup" => /\ database = <<>> /\ session = NoOne /\ Len(accounts) = 1
                           /\ ~accounts[1].off
  BY <1>3, <1>7 DEF IInv, Working, JobStillAuthorized
<1>12. job.op # "setup" => session # NoOne /\ Enabled(accounts, session)
  <2>1. ASSUME job.op # "setup" PROVE session # NoOne
    <3>1. session \in {database[i].name : i \in EnabledAdmins(database)}
      BY <1>2, <2>1 DEF IInv, Working, JobStillAuthorized
    <3> QED BY <1>4, <3>1, Element DEF EnabledAdmins
  <2> QED BY <1>4, <1>6, <2>1 DEF SessionHasAccount
<1> QED BY <1>1, <1>2, <1>3, <1>6, <1>8, <1>9, <1>10, <1>11, <1>12, Written

LEMMA WritePasswordIInv == ASSUME IInv, WritePassword PROVE IInv'
<1> DEFINE k == job.target
           a == [database[k] EXCEPT !.password = job.new]
           accounts == [database EXCEPT ![k] = a]
<1>1. /\ commit = NoCommit /\ manager # Gone /\ job \in PasswordJob /\ ~job.verifying
      /\ Write("password", [database EXCEPT ![k].password = job.new])
      /\ volume' = [volume EXCEPT !.accounts = [database EXCEPT ![k].password = job.new]]
  <2>1. job \in PasswordJob => job \notin NewAccountJob
    BY Jobs
  <2> QED BY <2>1 DEF WritePassword, Hashed, Manages, Free
<1>2. /\ job # NoJob /\ job.op = "password" /\ ~broken /\ job.target # 0
      /\ job.new \in Passwords
  BY <1>1, Jobs DEF IInv, Working, JobSound
<1>3. Good(database) /\ database \in Seq(Account) /\ volume \in Tree /\ SessionHasAccount
  BY DEF IInv, Copies, TypeOK, Working
<1>4. session # NoOne /\ k = Index(database, job.name)
  BY <1>2 DEF IInv, Working, JobStillAuthorized
<1>5. k \in DOMAIN database
  BY <1>2, <1>3, <1>4, IndexIs
<1>6. database[k] \in Account
  BY <1>3, <1>5, Element
<1>7. /\ a \in Account /\ a.name = database[k].name /\ a.admin = database[k].admin
      /\ a.off = database[k].off
  BY <1>2, <1>6 DEF Account
<1>8. [database EXCEPT ![k].password = job.new] = accounts
  OBVIOUS
<1> HIDE DEF k, a
<1>9. EnabledAdmins(accounts) # {}
  <2>1. PICK i \in DOMAIN database : database[i].admin /\ ~database[i].off
    <3>1. database # <<>>
      BY <1>3, <1>5, EmptySeq
    <3> QED BY <1>3, <3>1 DEF Good, EnabledAdmins
  <2>2. /\ Len(accounts) = Len(database) /\ accounts \in Seq(Account)
        /\ \A j \in 1 .. Len(database) : accounts[j] = IF j = k THEN a ELSE database[j]
    BY <1>3, <1>5, <1>7, Replaced
  <2> HIDE DEF accounts
  <2>3. i \in DOMAIN accounts /\ accounts[i].admin /\ ~accounts[i].off
    BY <1>3, <1>7, <2>1, <2>2, Element
  <2> QED BY <2>3 DEF EnabledAdmins
<1>10. /\ Good(accounts) /\ accounts # <<>> /\ NamesOf(accounts) = NamesOf(database)
       /\ \A name : Enabled(database, name) /\ (name = database[k].name => ~a.off)
                       => Enabled(accounts, name)
  BY <1>3, <1>5, <1>7, <1>9, GoodReplace
<1> HIDE DEF accounts
<1>11. Enabled(accounts, session)
  <2>1. Enabled(database, session)
    BY <1>3, <1>4 DEF SessionHasAccount
  <2>2. session = database[k].name => ~database[k].off
    BY <1>3, <1>5, <2>1 DEF Enabled, Good, Distinct
  <2> QED BY <1>7, <1>10, <2>1, <2>2
<1>12. volume' \in Tree /\ volume'.accounts = accounts /\ volume'.homes = volume.homes
  BY <1>1, <1>3, <1>8, <1>10 DEF Tree, Good, k
<1>13. database # <<>> => NamesOf(database) \cap NamesOf(accounts) # {}
  BY <1>3, <1>10, Founded
<1>14. Write("password", accounts)
  BY <1>1, <1>8
<1> QED BY <1>1, <1>2, <1>4, <1>10, <1>11, <1>12, <1>13, <1>14, Written
-----------------------------------------------------------------------------
(* update_account and the end of persist_candidate.                        *)

LEMMA UpdateIInv ==
    ASSUME IInv, NEW i \in DOMAIN database, NEW admin \in BOOLEAN, NEW off \in BOOLEAN,
           Update(i, admin, off)
    PROVE  IInv'
<1> DEFINE a == [[database[i] EXCEPT !.admin = admin] EXCEPT !.off = off]
           accounts == [database EXCEPT ![i] = a]
           new == [database EXCEPT ![i].admin = admin, ![i].off = off]
<1>1. /\ commit = NoCommit /\ manager # Gone /\ ~broken /\ session # NoOne
      /\ off => database[i].name # session
      /\ EnabledAdmins(new) # {} /\ Write("update", new)
      /\ volume' = [volume EXCEPT !.accounts = new]
  BY DEF Update, MayUpdate, Manages, Free, SelfProtected, KeepsAdmin
<1>2. Good(database) /\ database \in Seq(Account) /\ volume \in Tree /\ SessionHasAccount
  BY DEF IInv, Copies, TypeOK, Working
<1>3. database[i] \in Account
  BY <1>2, Element
<1>4. a \in Account /\ a.name = database[i].name /\ a.admin = admin /\ a.off = off
  BY <1>3 DEF Account
<1>5. new = accounts
  OBVIOUS
<1> HIDE DEF a, new
<1>6. /\ Good(accounts) /\ accounts # <<>> /\ NamesOf(accounts) = NamesOf(database)
      /\ \A name : Enabled(database, name) /\ (name = database[i].name => ~a.off)
                      => Enabled(accounts, name)
  BY <1>1, <1>2, <1>4, <1>5, GoodReplace
<1> HIDE DEF accounts
<1>7. Enabled(accounts, session)
  <2>1. Enabled(database, session)
    BY <1>1, <1>2 DEF SessionHasAccount
  <2> QED BY <1>1, <1>4, <1>6, <2>1
<1>8. volume' \in Tree /\ volume'.accounts = accounts /\ volume'.homes = volume.homes
  BY <1>1, <1>2, <1>5, <1>6 DEF Tree, Good
<1>9. database # <<>> => NamesOf(database) \cap NamesOf(accounts) # {}
  BY <1>2, <1>6, Founded
<1>10. Write("update", accounts)
  BY <1>1, <1>5
<1> QED BY <1>1, <1>6, <1>7, <1>8, <1>9, <1>10, Written

LEMMA RemoveAccountIInv ==
    ASSUME IInv, NEW i \in DOMAIN database, RemoveAccount(i)
    PROVE  IInv'
<1> DEFINE accounts == RemoveAt(database, i)
<1>1. /\ commit = NoCommit /\ manager # Gone /\ ~broken /\ session # NoOne
      /\ database[i].name # session
      /\ EnabledAdmins(accounts) # {} /\ Write("remove", accounts)
      /\ volume' = [volume EXCEPT !.accounts = accounts]
  BY DEF RemoveAccount, MayUpdate, Manages, Free, SelfProtected, KeepsAdmin
<1>2. Good(database) /\ database \in Seq(Account) /\ volume \in Tree /\ SessionHasAccount
  BY DEF IInv, Copies, TypeOK, Working
<1>3. /\ Good(accounts) /\ accounts # <<>> /\ NamesOf(accounts) \subseteq NamesOf(database)
      /\ \A name : Enabled(database, name) /\ name # database[i].name => Enabled(accounts, name)
  BY <1>1, <1>2, GoodRemove
<1> HIDE DEF accounts
<1>4. Enabled(accounts, session)
  <2>1. Enabled(database, session)
    BY <1>1, <1>2 DEF SessionHasAccount
  <2> QED BY <1>1, <1>3, <2>1
<1>5. volume' \in Tree /\ volume'.accounts = accounts /\ volume'.homes = volume.homes
  BY <1>1, <1>2, <1>3 DEF Tree, Good
<1>6. NamesOf(database) \cap NamesOf(accounts) # {}
  BY <1>3, Founded
<1> QED BY <1>1, <1>3, <1>4, <1>5, <1>6, Written

LEMMA CommittedIInv == ASSUME IInv, Committed PROVE IInv'
<1>1. /\ commit # NoCommit /\ ~frozen /\ stable' = IF disk THEN volume ELSE stable
      /\ database' = commit.accounts /\ commit' = NoCommit /\ job' = NoJob
      /\ UNCHANGED <<volume, machine, broken, manager>>
  BY DEF Committed, Writable
<1>2. /\ ~broken /\ manager # Gone /\ Good(commit.accounts) /\ volume.accounts = commit.accounts
      /\ commit.op = "setup" => /\ database = <<>> /\ session = NoOne
                                /\ Len(commit.accounts) = 1 /\ ~commit.accounts[1].off
      /\ commit.op # "setup" => session # NoOne /\ Enabled(commit.accounts, session)
  BY <1>1 DEF IInv, Working, CommitSound
<1>3. /\ volume \in Tree /\ stable \in Tree /\ UNCHANGED <<disk, frozen>>
      /\ (~disk => stable = Empty) /\ Good(volume.accounts) /\ Good(stable.accounts)
      /\ Descends(volume, stable)
  BY <1>1 DEF IInv, TypeOK, Copies, machine
<1>4. Copies'
  <2>1. Published'
    BY <1>1, <1>2, <1>3 DEF Published
  <2>2. Descends(volume, stable')
    <3>1. volume.accounts # <<>> => NamesOf(volume.accounts) # {}
      BY <1>3, Founded
    <3>2. Descends(volume, volume)
      BY <3>1 DEF Descends
    <3> QED BY <1>1, <1>3, <3>2
  <2> QED BY <1>1, <1>2, <1>3, <2>1, <2>2 DEF Copies
<1>5. database' \in Seq(Account) /\ Len(database') <= MaxAccounts /\ stable' \in Tree
  BY <1>1, <1>2, <1>3 DEF Good
<1>6. CASE commit.op = "setup"
  <2> DEFINE name == Last(commit.accounts).name
  <2>1. /\ session' = name /\ locked' = FALSE
        /\ owner' = [owner EXCEPT ![manager] = name, !["init"] = name]
        /\ ForgiveFailures
    BY <1>6 DEF Committed, StartSession
  <2>2. 1 \in DOMAIN commit.accounts /\ commit.accounts[1].name = name /\ name \in Names
    <3>1. Last(commit.accounts) = commit.accounts[1]
      BY <1>2, <1>6 DEF Last
    <3>2. DOMAIN commit.accounts = 1 .. 1
      BY <1>2, <1>6, Element DEF Good
    <3> QED BY <1>2, <3>1, <3>2, Element DEF Good
  <2>3. SessionHasAccount'
    BY <1>1, <1>2, <1>6, <2>1, <2>2 DEF SessionHasAccount, Enabled
  <2> HIDE DEF name
  <2>4. /\ owner \in [Process -> Names \cup {NoOne, Gone}] /\ manager \in Process
        /\ \A p \in Process : owner[p] \in {NoOne, Gone}
        /\ "init" \in Process
    BY <1>2, <1>6 DEF IInv, Working, TypeOK, OnlySessionProcesses, Process
  <2>5. owner' \in [Process -> Names \cup {NoOne, Gone}]
        /\ \A p \in Process : owner'[p] \in {name, NoOne, Gone}
    BY <2>1, <2>2, <2>4
  <2>6. TypeOK'
    BY <1>1, <1>5, <2>1, <2>2, <2>5, Forgiven DEF IInv, TypeOK, machine
  <2>7. OnlySessionProcesses'
    BY <2>1, <2>5 DEF OnlySessionProcesses
  <2> QED BY <1>1, <1>4, <2>1, <2>3, <2>6, <2>7, Forgiven, NothingToDo, NothingToCommit
          DEF IInv, Working
<1>7. CASE commit.op # "setup"
  <2>1. UNCHANGED <<session, locked, owner, wait>>
    BY <1>7 DEF Committed
  <2>2. TypeOK'
    BY <1>1, <1>5, <2>1 DEF IInv, TypeOK, machine, wait
  <2>3. SessionHasAccount'
    BY <1>1, <1>2, <1>7, <2>1 DEF SessionHasAccount
  <2>4. OnlySessionProcesses'
    BY <2>1 DEF IInv, Working, OnlySessionProcesses
  <2> QED BY <1>1, <1>4, <2>1, <2>2, <2>3, <2>4, DelayKept, NothingToDo, NothingToCommit
          DEF IInv, Working
<1> QED BY <1>6, <1>7

LEMMA CommitFailsIInv == ASSUME IInv, CommitFails PROVE IInv'
<1>1. /\ commit # NoCommit /\ disk /\ stable' \in {stable, volume} /\ broken' = TRUE
      /\ commit' = NoCommit /\ job' = NoJob
      /\ UNCHANGED <<database, volume, machine, session, locked, manager, owner, wait>>
  BY DEF CommitFails, Ambiguous
<1>2. TypeOK'
  BY <1>1 DEF IInv, TypeOK, machine, wait
<1>3. Copies'
  <2>1. /\ Good(volume.accounts) /\ Good(stable.accounts) /\ UNCHANGED <<disk, frozen>>
        /\ ~frozen => Descends(volume, stable)
    BY <1>1 DEF IInv, Copies, machine
  <2>2. Descends(volume, volume)
    <3>1. volume.accounts # <<>> => NamesOf(volume.accounts) # {}
      BY <2>1, Founded
    <3> QED BY <3>1 DEF Descends
  <2>3. Published'
    BY <1>1 DEF Published
  <2> QED BY <1>1, <2>1, <2>2, <2>3 DEF IInv, Copies
<1>4. OnlySessionProcesses' /\ SessionHasAccount'
  BY <1>1, AccountKept DEF IInv, Working, OnlySessionProcesses
<1> QED BY <1>1, <1>2, <1>3, <1>4, DelayKept, NothingToDo, NothingToCommit DEF IInv, Working
-----------------------------------------------------------------------------
(* Locking and signing out.                                                *)

LEMMA LockIInv == ASSUME IInv, Lock PROVE IInv'
<1>1. /\ commit = NoCommit /\ locked' = TRUE /\ job' = NoJob
      /\ UNCHANGED <<database, saved, machine, broken, session, manager, owner, commit, wait>>
  BY DEF Lock, LockSession, Manages, Free
<1>2. TypeOK'
  BY <1>1 DEF IInv, TypeOK, saved, machine, wait
<1>3. OnlySessionProcesses' /\ SessionHasAccount'
  BY <1>1, AccountKept DEF IInv, Working, OnlySessionProcesses
<1> QED BY <1>1, <1>2, <1>3, CopiesKept, NothingToCommit, NothingToDo, DelayKept
        DEF IInv, Working

LEMMA LogoutIInv == ASSUME IInv, Logout PROVE IInv'
<1>1. /\ commit = NoCommit /\ session' = NoOne /\ locked' = FALSE /\ job' = NoJob
      /\ owner' = SignedOut
      /\ UNCHANGED <<database, saved, machine, broken, manager, commit, wait>>
  BY DEF Logout, Manages, Free
<1>2. SignedOut \in [Process -> Names \cup {NoOne, Gone}]
      /\ \A p \in Process : SignedOut[p] \in {NoOne, Gone}
  BY DEF SignedOut
<1>3. TypeOK'
  BY <1>1, <1>2 DEF IInv, TypeOK, saved, machine, wait
<1>4. OnlySessionProcesses' /\ SessionHasAccount'
  BY <1>1, <1>2 DEF OnlySessionProcesses, SessionHasAccount
<1> QED BY <1>1, <1>3, <1>4, CopiesKept, NothingToCommit, NothingToDo, DelayKept
        DEF IInv, Working
-----------------------------------------------------------------------------
(* All steps.                                                              *)

LEMMA NextIInv == IInv /\ [Next]_vars => IInv'
<1> SUFFICES ASSUME IInv, [Next]_vars PROVE IInv'
  OBVIOUS
<1>1. CASE Reboot \/ TimePasses \/ IdleLock \/ StartDesktop
  BY <1>1, RebootIInv, TimePassesIInv, IdleLockIInv, StartDesktopIInv
<1>2. ASSUME NEW p \in Process, StartApp(p) \/ Exit(p) \/ Claim(p) \/ Sync(p)
      PROVE  IInv'
  BY <1>2, StartAppIInv, ExitIInv, ClaimIInv, SyncIInv
<1>3. ASSUME NEW name \in Names, NEW password \in Passwords, NEW op \in {"setup", "add"},
             NEW admin \in BOOLEAN, BeginNewAccount(op, name, admin, password)
      PROVE  IInv'
  BY <1>3, BeginNewAccountIInv
<1>4. ASSUME NEW name \in Names, NEW password \in Passwords,
             BeginLogin(name, password) \/ \E guess \in Passwords : BeginPassword(name, guess, password)
      PROVE  IInv'
  BY <1>4, BeginLoginIInv, BeginPasswordIInv
<1>5. CASE Cancel \/ VerificationFails \/ LoginSucceeds \/ PasswordVerified
  BY <1>5, CancelIInv, VerificationFailsIInv, LoginSucceedsIInv, PasswordVerifiedIInv
<1>6. CASE WriteFails \/ WriteAccount \/ WritePassword
  BY <1>6, WriteFailsIInv, WriteAccountIInv, WritePasswordIInv
<1>7. ASSUME NEW i \in DOMAIN database,
             RemoveAccount(i) \/ \E admin, off \in BOOLEAN : Update(i, admin, off)
      PROVE  IInv'
  BY <1>7, RemoveAccountIInv, UpdateIInv
<1>8. CASE Committed \/ CommitFails \/ Lock \/ Logout
  BY <1>8, CommittedIInv, CommitFailsIInv, LockIInv, LogoutIInv
<1>9. CASE UNCHANGED vars
  <2>1. UNCHANGED <<database, saved, machine, broken, session, locked, manager, owner,
                    job, commit, wait>>
    BY <1>9 DEF vars
  <2>2. TypeOK'
    BY <2>1 DEF IInv, TypeOK, saved, machine, wait
  <2>3. job # NoJob => manager' # Gone
    BY <2>1 DEF IInv, Working, JobStillAuthorized
  <2>4. OnlySessionProcesses' /\ SessionHasAccount'
    BY <2>1, AccountKept DEF IInv, Working, OnlySessionProcesses
  <2> QED BY <2>1, <2>2, <2>3, <2>4, CopiesKept, CommitKept, JobKept, DelayKept DEF IInv, Working
<1> QED BY <1>1, <1>2, <1>3, <1>4, <1>5, <1>6, <1>7, <1>8, <1>9 DEF Next

LEMMA IInvAlways == Spec => []IInv
BY InitIInv, NextIInv, PTL DEF Spec
-----------------------------------------------------------------------------
(* The theorems.                                                           *)

\* After any calls, exits, commits, failures and restarts the accounts are well
\* formed, one of them is an administrator who can act, and whoever is signed in
\* still has an account that is not disabled (account.c, update_account,
\* persist_candidate, account_init).
THEOREM AccountsAlwaysSound == Spec => []AccountsSound
<1>1. IInv => AccountsSound
  BY DEF IInv, Copies, Working, Good, AdminRemains, AccountsSound
<1> QED BY <1>1, IInvAlways, PTL

\* No process ever acts for a user other than the one of the session
\* (session_start, account_logout, task_kill of the processes of a session).
THEOREM ProcessesAlwaysOfSession == Spec => []OnlySessionProcesses
<1>1. IInv => OnlySessionProcesses
  BY DEF IInv, Working
<1> QED BY <1>1, IInvAlways, PTL

\* A job in hand is one that begin_job would accept again, whatever was called
\* and whoever came and went while the password was hashed (account_job).
THEOREM JobsAlwaysAuthorized == Spec => []JobStillAuthorized
<1>1. IInv => JobStillAuthorized
  BY DEF IInv, Working
<1> QED BY <1>1, IInvAlways, PTL

\* Logins are checked against the accounts that a power loss would leave, also
\* during a commit (persist_candidate publishes after store_sync).
THEOREM AlwaysPublished == Spec => []Published
<1>1. IInv => Published
  BY DEF IInv, Copies
<1> QED BY <1>1, IInvAlways, PTL

\* No password is tried before the failures so far allow it, by any sequence of
\* logins, password changes, cancellations and locks (cooldown_remaining).
THEOREM GuessesAlwaysDelayed == Spec => []GuessesDelayed
<1>1. IInv => GuessesDelayed
  BY DEF IInv, Working, Delayed
<1> QED BY <1>1, IInvAlways, PTL

\* Nobody comes to be signed in, or unlocks a session, without the password of
\* that user or the setup of the first account (session_start, poll_job).
THEOREM SessionsAlwaysProven == Spec => ProvenSession
<1> DEFINE Proven == SignsIn =>
               /\ \/ commit.op = "setup" /\ session' = Last(commit.accounts).name
                  \/ /\ job.op = "login"
                     /\ \E i \in DOMAIN database :
                           /\ database[i].name = session' /\ ~database[i].off
                           /\ database[i].password = job.guess
               /\ session \in {session', NoOne}
<1>1. ASSUME IInv, [Next]_vars PROVE [Proven]_vars
  <2>1. CASE LoginSucceeds
    <3>1. job.op = "login"
      BY <2>1 DEF LoginSucceeds
    <3> QED BY <1>1, <2>1, <3>1, LoginIs
  <2>2. CASE Committed /\ commit.op = "setup"
    <3>1. session' = Last(commit.accounts).name
      BY <2>2 DEF Committed, StartSession
    <3>2. session = NoOne
      BY <1>1, <2>2 DEF Committed, IInv, Working, CommitSound
    <3> QED BY <2>2, <3>1, <3>2
  <2>3. CASE session' = NoOne
    BY <2>3 DEF SignsIn
  <2>4. CASE session' = session /\ (locked' = locked \/ locked' = TRUE)
    BY <2>4 DEF SignsIn
  <2> HIDE DEF Proven
  <2>5. CASE Reboot \/ Logout
    BY <2>3, <2>5 DEF Reboot, Logout
  <2>6. CASE TimePasses \/ IdleLock \/ StartDesktop
    BY <2>4, <2>6 DEF TimePasses, IdleLock, LockSession, StartDesktop
  <2>7. ASSUME NEW p \in Process, StartApp(p) \/ Exit(p) \/ Claim(p) \/ Sync(p)
        PROVE  [Proven]_vars
    <3>1. session' = session /\ (locked' = locked \/ locked' = TRUE)
      BY <2>7 DEF StartApp, Exit, LockSession, Claim, Sync
    <3> QED BY <2>4, <3>1
  <2>8. ASSUME NEW name \in Names, NEW password \in Passwords,
               \/ \E op \in {"setup", "add"}, admin \in BOOLEAN :
                     BeginNewAccount(op, name, admin, password)
               \/ BeginLogin(name, password)
               \/ \E guess \in Passwords : BeginPassword(name, guess, password)
        PROVE  [Proven]_vars
    <3>1. UNCHANGED <<session, locked>>
      BY <2>8 DEF BeginNewAccount, BeginLogin, BeginPassword
    <3> QED BY <2>4, <3>1
  <2>9. CASE Cancel \/ VerificationFails \/ PasswordVerified \/ WriteFails
    BY <2>4, <2>9 DEF Cancel, VerificationFails, PasswordVerified, WriteFails
  <2>10. CASE WriteAccount \/ WritePassword
    BY <2>4, <2>10 DEF WriteAccount, WritePassword, Write
  <2>11. ASSUME NEW i \in DOMAIN database,
                RemoveAccount(i) \/ \E admin, off \in BOOLEAN : Update(i, admin, off)
         PROVE  [Proven]_vars
    <3>1. UNCHANGED <<session, locked>>
      BY <2>11 DEF RemoveAccount, Update, Write
    <3> QED BY <2>4, <3>1
  <2>12. CASE (Committed /\ commit.op # "setup") \/ CommitFails \/ Lock
    BY <2>4, <2>12 DEF Committed, CommitFails, Lock, LockSession
  <2> QED BY <1>1, <2>1, <2>2, <2>5, <2>6, <2>7, <2>8, <2>9, <2>10, <2>11, <2>12 DEF Next
<1> QED BY <1>1, IInvAlways, PTL DEF Spec, ProvenSession

\* The accounts on the disk are never replaced as a whole, and no new account
\* gets the directory that a removed one left (create_account, account_init).
THEOREM AlwaysEstablished == Spec => EstablishedKept
<1> DEFINE Kept == LET was == NamesOf(stable.accounts)
                       now == NamesOf(stable'.accounts)
                   IN  /\ stable.accounts # <<>> => was \cap now # {}
                       /\ (now \ was) \cap stable.homes = {}
<1>1. ASSUME IInv, [Next]_vars PROVE [Kept]_vars
  <2>1. CASE stable' = stable
    <3>1. stable.accounts # <<>> => NamesOf(stable.accounts) # {}
      BY <1>1, Founded DEF IInv, Copies
    <3> QED BY <2>1, <3>1
  <2> HIDE DEF Kept
  <2>2. ASSUME ~frozen, stable' \in {stable, volume} PROVE [Kept]_vars
    <3>1. Descends(volume, stable)
      BY <1>1, <2>2 DEF IInv, Copies
    <3>2. CASE stable' = volume
      BY <3>1, <3>2 DEF Descends, Kept
    <3> QED BY <2>1, <2>2, <3>2
  <2>3. CASE Reboot \/ TimePasses \/ IdleLock \/ StartDesktop
    BY <2>1, <2>3 DEF Reboot, TimePasses, IdleLock, StartDesktop, saved
  <2>4. ASSUME NEW p \in Process, StartApp(p) \/ Exit(p) \/ Claim(p) PROVE [Kept]_vars
    <3>1. UNCHANGED saved
      BY <2>4 DEF StartApp, Exit, Claim
    <3> QED BY <2>1, <3>1 DEF saved
  <2>5. ASSUME NEW p \in Process, Sync(p) PROVE [Kept]_vars
    BY <2>2, <2>5 DEF Sync, Writable
  <2>6. ASSUME NEW name \in Names, NEW password \in Passwords,
               \/ \E op \in {"setup", "add"}, admin \in BOOLEAN :
                     BeginNewAccount(op, name, admin, password)
               \/ BeginLogin(name, password)
               \/ \E guess \in Passwords : BeginPassword(name, guess, password)
        PROVE  [Kept]_vars
    <3>1. UNCHANGED saved
      BY <2>6 DEF BeginNewAccount, BeginLogin, BeginPassword
    <3> QED BY <2>1, <3>1 DEF saved
  <2>7. CASE Cancel \/ VerificationFails \/ LoginSucceeds \/ PasswordVerified \/ WriteFails
    BY <2>1, <2>7 DEF Cancel, VerificationFails, LoginSucceeds, PasswordVerified, WriteFails, saved
  <2>8. CASE WriteAccount \/ WritePassword
    BY <2>1, <2>8 DEF WriteAccount, WritePassword, Write
  <2>9. ASSUME NEW i \in DOMAIN database,
               RemoveAccount(i) \/ \E admin, off \in BOOLEAN : Update(i, admin, off)
        PROVE  [Kept]_vars
    <3>1. stable' = stable
      BY <2>9 DEF RemoveAccount, Update, Write
    <3> QED BY <2>1, <3>1
  <2>10. CASE Committed
    BY <2>2, <2>10 DEF Committed, Writable
  <2>11. CASE CommitFails
    <3>1. ~frozen
      BY <1>1, <2>11 DEF CommitFails, IInv, Working, CommitSound
    <3> QED BY <2>2, <2>11, <3>1 DEF CommitFails
  <2>12. CASE Lock \/ Logout
    BY <2>1, <2>12 DEF Lock, Logout, saved
  <2> QED BY <1>1, <2>3, <2>4, <2>5, <2>6, <2>7, <2>8, <2>9, <2>10, <2>11, <2>12 DEF Next
<1> QED BY <1>1, IInvAlways, PTL DEF Spec, EstablishedKept
=============================================================================
