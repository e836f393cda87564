-------------------------- MODULE Accounts_proofs --------------------------
(***************************************************************************)
(* WritesSurvive, RowsHaveOwners and FewLiveCodes for any number of        *)
(* accounts, threads, codes and roles.                                     *)
(*                                                                         *)
(* A thread that still has a step before it carries what the step needs:   *)
(* the row it is going to save, the address of the account it is going to  *)
(* create.  A code never comes into force again, and a row that is written *)
(* is there afterwards; so what belongs to an account could only stay      *)
(* behind where the row is deleted, and there it goes in one transaction.  *)
(* A thread that has used up the older codes and not issued the new one    *)
(* holds a ticket for it; codes in force and tickets together are never    *)
(* more than the threads.                                                  *)
(***************************************************************************)
EXTENDS Accounts, SequenceTheorems, FiniteSetTheorems, TLAPS

Has(j, step) == \E i \in DOMAIN j.todo : j.todo[i] = step

JobFits(j) ==
  /\ Has(j, "save") \/ Has(j, "erase") => j.row \in AccountRow /\ j.user \in People
  /\ Has(j, "save") \/ Has(j, "create") => j.email \in Emails \cup People
  /\ Has(j, "issue") => IF j.kind = "register" THEN j.email \in Emails ELSE j.user \in People
  /\ Has(j, "issue") /\ j.kind \in Superseding =>
       j.todo \in {<<"issue">>, <<"supersede", "issue">>}

JobsFit == /\ job \in [Clerks -> JobState]
           /\ \A c \in Clerks : JobFits(job[c])

RowsTyped ==
  /\ users \in [People -> AccountRow \cup {Nobody}]
  /\ DOMAIN intended = People /\ intended = [u \in People |-> intended[u]]
  /\ bound \in [People -> Roles \cup {Nobody}]
  /\ roles \subseteq Roles

\* Only the codes of a registration name an address.
CodesFit ==
  /\ codes \in Seq(Code)
  /\ \A i \in DOMAIN codes :
       codes[i].of \in IF codes[i].kind = "register" THEN Emails ELSE People

NoneLive(u) == \A i \in DOMAIN codes : codes[i].of = u => codes[i].state # "live"

NothingOf(u) == u \notin ordered \cup private /\ bound[u] = Nobody /\ NoneLive(u)

Owned == \A u \in People : ~Present(u) => NothingOf(u)

Inv == RowsTyped /\ CodesFit /\ JobsFit /\ WritesSurvive /\ Owned

-----------------------------------------------------------------------------
(***************************************************************************)
(* The threads.                                                            *)
(***************************************************************************)
LEMMA Plan1 ==
  ASSUME NEW j, NEW a \in Steps, j.todo = <<a>>
  PROVE  j.todo \in Seq(Steps) /\ \A s : Has(j, s) => s = a
BY DEF Has

LEMMA Plan2 ==
  ASSUME NEW j, NEW a \in Steps, NEW b \in Steps, j.todo = <<a, b>>
  PROVE  j.todo \in Seq(Steps) /\ \A s : Has(j, s) => s \in {a, b}
BY DEF Has

LEMMA Plan3 ==
  ASSUME NEW j, NEW a \in Steps, NEW b \in Steps, NEW c \in Steps, j.todo = <<a, b, c>>
  PROVE  j.todo \in Seq(Steps) /\ \A s : Has(j, s) => s \in {a, b, c}
BY DEF Has

LEMMA IdleFits ==
  /\ Idle \in JobState /\ JobFits(Idle) /\ Idle.todo = <<>>
<1>1. Idle.todo = <<>> /\ \A s : ~Has(Idle, s)
  BY DEF Idle, Has
<1>2. Idle \in JobState
  BY DEF Idle, JobState, Kinds
<1>3. QED BY <1>1, <1>2 DEF JobFits

\* A thread takes up a job, gives it up, or goes on with it.
LEMMA OneJob ==
  ASSUME JobsFit, NEW c \in Clerks, NEW new \in JobState, JobFits(new),
         job' = [job EXCEPT ![c] = new]
  PROVE  JobsFit'
<1>1. job' \in [Clerks -> JobState]
  BY DEF JobsFit
<1>2. ASSUME NEW d \in Clerks PROVE job'[d] = IF d = c THEN new ELSE job[d]
  BY DEF JobsFit
<1>3. ASSUME NEW d \in Clerks PROVE JobFits(job'[d])
  BY <1>2 DEF JobsFit
<1>4. QED BY <1>1, <1>3 DEF JobsFit

\* The rest of a plan.
LEMMA RestFits ==
  ASSUME NEW j \in JobState, JobFits(j), j.todo # <<>>, NEW new \in JobState,
         new.todo = Tail(j.todo), new.row = j.row, new.email = j.email, new.kind = j.kind,
         new.user = j.user \/ new.user \in People
  PROVE  JobFits(new)
<1>1. j.todo \in Seq(Steps)
  BY DEF JobState
<1>2. /\ DOMAIN Tail(j.todo) = 1..(Len(j.todo) - 1)
      /\ \A i \in 1..(Len(j.todo) - 1) : Tail(j.todo)[i] = j.todo[i + 1]
      /\ DOMAIN j.todo = 1..Len(j.todo) /\ Len(j.todo) \in Nat
  BY <1>1
<1>3. \A s : Has(new, s) => Has(j, s)
  <2>1. SUFFICES ASSUME NEW s, NEW i \in DOMAIN new.todo, new.todo[i] = s
                 PROVE  \E k \in DOMAIN j.todo : j.todo[k] = s
    BY DEF Has
  <2>2. i + 1 \in DOMAIN j.todo /\ j.todo[i + 1] = s
    BY <1>2, <2>1
  <2>3. QED BY <2>2
<1>4. ASSUME Has(new, "issue"), new.kind \in Superseding
      PROVE  new.todo \in {<<"issue">>, <<"supersede", "issue">>}
  <2>1. j.todo \in {<<"issue">>, <<"supersede", "issue">>}
    BY <1>3, <1>4 DEF JobFits
  <2>2. CASE j.todo = <<"issue">>
    BY <1>4, <2>2 DEF Has
  <2>3. CASE j.todo = <<"supersede", "issue">>
    BY <2>3
  <2>4. QED BY <2>1, <2>2, <2>3
<1>5. QED BY <1>3, <1>4 DEF JobFits

LEMMA ContinueFits ==
  ASSUME JobsFit, NEW c \in Clerks, job[c].todo # <<>>, Continue(c)
  PROVE  JobsFit'
<1> DEFINE new == [job[c] EXCEPT !.todo = Tail(job[c].todo)]
<1>1. job[c] \in JobState /\ JobFits(job[c]) /\ job[c].todo \in Seq(Steps)
  BY DEF JobsFit, JobState
<1>2. Tail(job[c].todo) \in Seq(Steps)
  BY <1>1
<1>3. /\ new \in JobState /\ new.todo = Tail(job[c].todo) /\ new.row = job[c].row
      /\ new.email = job[c].email /\ new.kind = job[c].kind /\ new.user = job[c].user
  BY <1>1, <1>2 DEF JobState
<1>4. job' = [job EXCEPT ![c] = Idle] \/ job' = [job EXCEPT ![c] = new]
  <2>1. CASE Len(job[c].todo) = 1
    BY <2>1 DEF Continue, JobsFit
  <2>2. CASE Len(job[c].todo) # 1
    BY <2>2 DEF Continue, JobsFit
  <2>3. QED BY <2>1, <2>2
<1> HIDE DEF new
<1>5. JobFits(new)
  BY <1>1, <1>3, RestFits
<1>6. QED BY <1>3, <1>4, <1>5, IdleFits, OneJob

LEMMA JobTyped ==
  ASSUME Inv, NEW c \in Clerks
  PROVE  job[c] \in JobState /\ JobFits(job[c]) /\ job[c].todo \in Seq(Steps)
BY DEF Inv, JobsFit, JobState

LEMMA AtHas ==
  ASSUME Inv, NEW c \in Clerks, NEW step, At(c, step)
  PROVE  Has(job[c], step) /\ job[c].todo # <<>>
<1>1. job[c].todo \in Seq(Steps) /\ job[c].todo # <<>> /\ Head(job[c].todo) = step
  BY JobTyped DEF At
<1>2. 1 \in DOMAIN job[c].todo /\ job[c].todo[1] = step
  BY <1>1
<1>3. QED BY <1>1, <1>2 DEF Has

-----------------------------------------------------------------------------
(***************************************************************************)
(* Steps that write nothing but the state of a thread.                     *)
(***************************************************************************)
LEMMA SameRows ==
  ASSUME Inv, UNCHANGED <<rowVars, ownedVars, codes>>, JobsFit'
  PROVE  Inv'
BY DEF Inv, RowsTyped, CodesFit, WritesSurvive, Owned, NothingOf, NoneLive, Present,
       rowVars, ownedVars

LEMMA ServeFits ==
  ASSUME Inv, NEW c \in Clerks, NEW request, NEW j \in JobState, JobFits(j),
         Serve(c, request, j)
  PROVE  Inv'
BY OneJob, SameRows DEF Serve, Inv

LEMMA FailFits ==
  ASSUME Inv, NEW c \in Clerks, Fail(c)
  PROVE  Inv'
BY IdleFits, OneJob, SameRows DEF Fail, Inv

\* The row of an account that is there.
LEMMA PresentRow ==
  ASSUME Inv, NEW u \in People, Present(u)
  PROVE  users[u] \in AccountRow /\ users[u].email \in Emails \cup People
BY DEF Inv, RowsTyped, Present, AccountRow

LEMMA StepsHas ==
  {"supersede", "issue", "create", "mark", "password", "status", "orders", "erase", "save",
   "bind", "remove", "drop"} \subseteq Steps
BY DEF Steps

LEMMA AskFits ==
  ASSUME Inv, NEW c \in Clerks, NEW u \in People, AskAny(c, u)
  PROVE  Inv'
<1>1. PICK kind \in Kinds \ {"register"} : Ask(c, kind, u)
  BY DEF AskAny, AskToReset, AskToChange, AskToDeactivate, AskToDelete, AskToReactivate,
         AskToLogIn, Kinds
<1>2. PICK todo : /\ todo = <<"supersede", "issue">> \/ todo = <<"issue">>
                  /\ Serve(c, kind, [Idle EXCEPT !.kind = kind, !.user = u, !.todo = todo])
  BY <1>1 DEF Ask
<1> DEFINE new == [Idle EXCEPT !.kind = kind, !.user = u, !.todo = todo]
<1>3. new.todo = todo /\ new.kind = kind /\ new.user = u
  BY IdleFits DEF JobState
<1>4. new.todo \in Seq(Steps) /\ \A s : Has(new, s) => s \in {"supersede", "issue"}
  <2> HIDE DEF new
  <2>1. CASE todo = <<"supersede", "issue">>
    BY <1>3, <2>1, StepsHas, Plan2
  <2>2. CASE todo = <<"issue">>
    BY <1>3, <2>2, StepsHas, Plan1
  <2>3. QED BY <1>2, <2>1, <2>2
<1>5. new \in JobState
  BY <1>3, <1>4, IdleFits DEF JobState
<1>6. Serve(c, kind, new)
  BY <1>2
<1> HIDE DEF new
<1>7. JobFits(new)
  BY <1>2, <1>3, <1>4 DEF JobFits
<1>8. QED BY <1>5, <1>6, <1>7, ServeFits

LEMMA AskToRegisterFits ==
  ASSUME Inv, NEW c \in Clerks, NEW e \in Emails, AskToRegister(c, e)
  PROVE  Inv'
<1> DEFINE new == [Idle EXCEPT !.kind = "register", !.email = e, !.todo = <<"issue">>]
<1>1. Serve(c, "register", new)
  BY DEF AskToRegister
<1>2. new.todo = <<"issue">> /\ new.kind = "register" /\ new.email = e
  BY IdleFits DEF JobState
<1>3. new.todo \in Seq(Steps) /\ \A s : Has(new, s) => s = "issue"
  <2> HIDE DEF new
  <2>1. QED BY <1>2, StepsHas, Plan1
<1>4. new \in JobState
  BY <1>3, IdleFits DEF JobState, Kinds
<1> HIDE DEF new
<1>5. JobFits(new)
  BY <1>2, <1>3 DEF JobFits, Superseding
<1>6. QED BY <1>1, <1>4, <1>5, ServeFits

LEMMA CodeTyped ==
  ASSUME Inv, NEW i \in DOMAIN codes
  PROVE  /\ codes[i] \in Code /\ i \in Nat /\ DOMAIN codes = 1..Len(codes)
         /\ codes[i].kind \in Kinds /\ codes[i].of \in People \cup Emails
         /\ codes[i].of \in IF codes[i].kind = "register" THEN Emails ELSE People
<1>1. /\ codes \in Seq(Code)
      /\ codes[i].of \in IF codes[i].kind = "register" THEN Emails ELSE People
  BY DEF Inv, CodesFit
<1>2. codes[i] \in Code /\ i \in Nat /\ DOMAIN codes = 1..Len(codes)
  BY <1>1
<1>3. QED BY <1>1, <1>2 DEF Code

LEMMA RegisterFits ==
  ASSUME Inv, NEW c \in Clerks, NEW i \in DOMAIN codes, NEW word \in Passwords,
         Register(c, i, word)
  PROVE  Inv'
<1> DEFINE new == [Idle EXCEPT !.kind = "register", !.code = i, !.word = word,
                               !.email = codes[i].of, !.todo = <<"create", "mark">>]
<1>1. Serve(c, "register", new)
  BY DEF Register
<1>2. codes[i].of \in Emails /\ i \in Nat
  BY CodeTyped DEF Register, InForce
<1>3. new.todo = <<"create", "mark">> /\ new.email = codes[i].of
  BY IdleFits DEF JobState
<1>4. new.todo \in Seq(Steps) /\ \A s : Has(new, s) => s \in {"create", "mark"}
  <2> HIDE DEF new
  <2>1. QED BY <1>3, StepsHas, Plan2
<1>5. new \in JobState
  BY <1>2, <1>4, IdleFits DEF JobState, Kinds
<1> HIDE DEF new
<1>6. JobFits(new)
  BY <1>2, <1>3, <1>4 DEF JobFits
<1>7. QED BY <1>1, <1>5, <1>6, ServeFits

\* The account of a code that is used is there.
LEMMA UseFits ==
  ASSUME Inv, NEW c \in Clerks, NEW i \in DOMAIN codes, NEW word \in Passwords \cup {Nobody},
         NEW plan \in Seq(Steps), Use(c, i, word, plan), codes[i].kind # "register",
         \A j : j.todo = plan => ~Has(j, "save") /\ ~Has(j, "create") /\ ~Has(j, "issue"),
         Present(codes[i].of)
  PROVE  Inv'
<1> DEFINE u == codes[i].of
           new == [Idle EXCEPT !.kind = codes[i].kind, !.code = i, !.word = word,
                               !.todo = plan, !.user = u, !.row = users[u]]
<1>1. Serve(c, codes[i].kind, new)
  BY DEF Use
<1>2. u \in People /\ i \in Nat /\ codes[i].kind \in Kinds
  BY CodeTyped
<1>3. users[u] \in AccountRow
  BY <1>2, PresentRow
<1> HIDE DEF u
<1>4. /\ new.todo = plan /\ new.user = u /\ new.row = users[u] /\ new \in JobState
  BY <1>2, <1>3, IdleFits DEF JobState
<1> HIDE DEF new
<1>5. JobFits(new)
  BY <1>2, <1>3, <1>4 DEF JobFits
<1>6. QED BY <1>1, <1>4, <1>5, ServeFits

LEMMA UseAnyFits ==
  ASSUME Inv, NEW c \in Clerks, NEW i \in DOMAIN codes, UseAny(c, i)
  PROVE  Inv'
<1>1. CASE \E word \in Passwords : Register(c, i, word)
  BY <1>1, RegisterFits
<1>2. CASE \E word \in Passwords \cup {Nobody}, a \in Steps, b \in Steps :
             /\ Use(c, i, word, <<a, b>>) /\ codes[i].kind # "register"
             /\ {a, b} \cap {"save", "create", "issue"} = {} /\ Present(codes[i].of)
  <2>1. PICK word \in Passwords \cup {Nobody}, a \in Steps, b \in Steps :
             /\ Use(c, i, word, <<a, b>>) /\ codes[i].kind # "register"
             /\ {a, b} \cap {"save", "create", "issue"} = {} /\ Present(codes[i].of)
    BY <1>2
  <2>2. <<a, b>> \in Seq(Steps)
    OBVIOUS
  <2>3. ASSUME NEW j, j.todo = <<a, b>>
        PROVE  ~Has(j, "save") /\ ~Has(j, "create") /\ ~Has(j, "issue")
    <3>1. \A s : Has(j, s) => s \in {a, b}
      BY <2>3, Plan2
    <3>2. QED BY <2>1, <3>1
  <2> DEFINE plan == <<a, b>>
  <2>4. Use(c, i, word, plan) /\ plan \in Seq(Steps)
        /\ \A j : j.todo = plan => ~Has(j, "save") /\ ~Has(j, "create") /\ ~Has(j, "issue")
    BY <2>1, <2>2, <2>3
  <2> HIDE DEF plan
  <2>5. QED BY <2>1, <2>4, UseFits
<1>3. CASE \E word \in Passwords \cup {Nobody}, a \in Steps, b \in Steps, d \in Steps :
             /\ Use(c, i, word, <<a, b, d>>) /\ codes[i].kind # "register"
             /\ {a, b, d} \cap {"save", "create", "issue"} = {} /\ Present(codes[i].of)
  <2>1. PICK word \in Passwords \cup {Nobody}, a \in Steps, b \in Steps, d \in Steps :
             /\ Use(c, i, word, <<a, b, d>>) /\ codes[i].kind # "register"
             /\ {a, b, d} \cap {"save", "create", "issue"} = {} /\ Present(codes[i].of)
    BY <1>3
  <2>2. <<a, b, d>> \in Seq(Steps)
    OBVIOUS
  <2>3. ASSUME NEW j, j.todo = <<a, b, d>>
        PROVE  ~Has(j, "save") /\ ~Has(j, "create") /\ ~Has(j, "issue")
    <3>1. \A s : Has(j, s) => s \in {a, b, d}
      BY <2>3, Plan3
    <3>2. QED BY <2>1, <3>1
  <2> DEFINE plan == <<a, b, d>>
  <2>4. Use(c, i, word, plan) /\ plan \in Seq(Steps)
        /\ \A j : j.todo = plan => ~Has(j, "save") /\ ~Has(j, "create") /\ ~Has(j, "issue")
    BY <2>1, <2>2, <2>3
  <2> HIDE DEF plan
  <2>5. QED BY <2>1, <2>4, UseFits
<1>4. CASE \E word \in Passwords : ResetPassword(c, i, word)
  BY <1>4, <1>2, StepsHas DEF ResetPassword, InForce
<1>5. CASE \E word \in Passwords : ChangePassword(c, i, word)
  BY <1>5, <1>3, StepsHas DEF ChangePassword, InForce, Active
<1>6. CASE DeactivateAccount(c, i)
  BY <1>6, <1>3, StepsHas DEF DeactivateAccount, InForce, Active
<1>7. CASE ReactivateAccount(c, i)
  BY <1>7, <1>3, StepsHas DEF ReactivateAccount, InForce
<1>8. CASE DeleteAccount(c, i)
  BY <1>8, <1>3, StepsHas DEF DeleteAccount, InForce, Active
<1>9. CASE LogIn(c, i)
  BY <1>9, <1>2, StepsHas DEF LogIn, InForce, Active
<1>10. QED BY <1>1, <1>4, <1>5, <1>6, <1>7, <1>8, <1>9 DEF UseAny

LEMMA AskOfStaffFits ==
  ASSUME Inv, NEW c \in Clerks, AskOfStaff(c)
  PROVE  Inv'
<1>1. ASSUME NEW by \in People, NEW e \in Emails, NEW word \in Passwords,
             NEW role \in Roles \cup {Nobody}, AddStaff(c, by, e, word, role)
      PROVE  Inv'
  <2> DEFINE new == [Idle EXCEPT !.email = e, !.word = word, !.role = role,
                                 !.todo = <<"create", "bind">>]
  <2>1. Serve(c, "hire", new)
    BY <1>1 DEF AddStaff
  <2>2. new.todo = <<"create", "bind">> /\ new.email = e
    BY IdleFits DEF JobState
  <2>3. new.todo \in Seq(Steps) /\ \A s : Has(new, s) => s \in {"create", "bind"}
    <3> HIDE DEF new
    <3>1. QED BY <2>2, StepsHas, Plan2
  <2>4. new \in JobState
    BY <2>3, IdleFits DEF JobState
  <2> HIDE DEF new
  <2>5. JobFits(new)
    BY <2>2, <2>3 DEF JobFits
  <2>6. QED BY <2>1, <2>4, <2>5, ServeFits
<1>2. ASSUME NEW u \in People, NEW e \in Emails, NEW role \in Roles \cup {Nobody},
             Edit(c, u, e, role)
      PROVE  Inv'
  <2>1. PICK todo : /\ todo = <<"save">> \/ todo = <<"save", "bind">>
                    /\ Serve(c, "edit", [Idle EXCEPT !.user = u, !.row = users[u], !.email = e,
                                                     !.role = role, !.todo = todo])
    BY <1>2 DEF Edit
  <2>2. users[u] \in AccountRow
    BY <1>2, PresentRow DEF Edit, Active
  <2> DEFINE new == [Idle EXCEPT !.user = u, !.row = users[u], !.email = e, !.role = role,
                                 !.todo = todo]
  <2>3. /\ new.todo = todo /\ new.email = e /\ new.row = users[u] /\ new.user = u
    BY IdleFits DEF JobState
  <2>4. new.todo \in Seq(Steps) /\ \A s : Has(new, s) => s \in {"save", "bind"}
    <3> HIDE DEF new
    <3>1. CASE todo = <<"save">>
      BY <2>3, <3>1, StepsHas, Plan1
    <3>2. CASE todo = <<"save", "bind">>
      BY <2>3, <3>2, StepsHas, Plan2
    <3>3. QED BY <2>1, <3>1, <3>2
  <2>5. new \in JobState
    BY <2>2, <2>3, <2>4, IdleFits DEF JobState
  <2>6. Serve(c, "edit", new)
    BY <2>1
  <2> HIDE DEF new
  <2>7. JobFits(new)
    BY <2>2, <2>3, <2>4 DEF JobFits
  <2>8. QED BY <2>5, <2>6, <2>7, ServeFits
<1>3. ASSUME NEW u \in People, NEW by \in People, AskRemoval(c, by, u)
      PROVE  Inv'
  <2> DEFINE new == [Idle EXCEPT !.user = u, !.todo = <<"remove">>]
  <2>1. Serve(c, "remove", new)
    BY <1>3 DEF AskRemoval
  <2>2. new.todo = <<"remove">>
    BY IdleFits DEF JobState
  <2>3. new.todo \in Seq(Steps) /\ \A s : Has(new, s) => s = "remove"
    <3> HIDE DEF new
    <3>1. QED BY <2>2, StepsHas, Plan1
  <2>4. new \in JobState
    BY <2>3, IdleFits DEF JobState
  <2> HIDE DEF new
  <2>5. JobFits(new)
    BY <2>3 DEF JobFits
  <2>6. QED BY <2>1, <2>4, <2>5, ServeFits
<1>4. ASSUME NEW role \in Roles, AskDrop(c, role)
      PROVE  Inv'
  <2> DEFINE new == [Idle EXCEPT !.role = role, !.todo = <<"drop">>]
  <2>1. Serve(c, "drop", new)
    BY <1>4 DEF AskDrop
  <2>2. new.todo = <<"drop">>
    BY IdleFits DEF JobState
  <2>3. new.todo \in Seq(Steps) /\ \A s : Has(new, s) => s = "drop"
    <3> HIDE DEF new
    <3>1. QED BY <2>2, StepsHas, Plan1
  <2>4. new \in JobState
    BY <2>3, IdleFits DEF JobState
  <2> HIDE DEF new
  <2>5. JobFits(new)
    BY <2>3 DEF JobFits
  <2>6. QED BY <2>1, <2>4, <2>5, ServeFits
<1>5. QED BY <1>1, <1>2, <1>3, <1>4 DEF AskOfStaff

-----------------------------------------------------------------------------
(***************************************************************************)
(* The codes.                                                              *)
(***************************************************************************)
StillNone(u) == NoneLive(u) => NoneLive(u)'

LEMMA CodesOnly ==
  ASSUME Inv, UNCHANGED <<rowVars, ownedVars>>, JobsFit', CodesFit',
         \A u \in People : ~Present(u) => StillNone(u)
  PROVE  Inv'
<1>1. RowsTyped' /\ WritesSurvive'
  BY DEF Inv, RowsTyped, WritesSurvive, rowVars, ownedVars
<1>2. ASSUME NEW u \in People, ~Present(u)' PROVE NothingOf(u)'
  <2>1. ~Present(u)
    BY <1>2 DEF Present, rowVars
  <2>2. StillNone(u) /\ NothingOf(u)
    BY <2>1 DEF Inv, Owned
  <2>3. NoneLive(u)'
    BY <2>2 DEF StillNone, NothingOf
  <2>4. QED BY <2>2, <2>3 DEF NothingOf, ownedVars
<1>3. Owned'
  BY <1>2 DEF Owned
<1>4. QED BY <1>1, <1>3 DEF Inv

\* Codes are used up, expire or are purged; none comes into force again.
EndCodes(S, new) ==
  /\ new \in {"used", "expired", "purged"}
  /\ codes' = [i \in DOMAIN codes |-> IF i \in S THEN [codes[i] EXCEPT !.state = new]
                                      ELSE codes[i]]

LEMMA CodesEnd ==
  ASSUME Inv, NEW S, NEW new, EndCodes(S, new)
  PROVE  /\ CodesFit' /\ \A u \in People : StillNone(u)
         /\ \A u \in People : {i \in DOMAIN codes : codes[i].of = u} \subseteq S => NoneLive(u)'
<1>1. codes \in Seq(Code) /\ DOMAIN codes = 1..Len(codes) /\ Len(codes) \in Nat
  BY DEF Inv, CodesFit
<1>2. ASSUME NEW i \in DOMAIN codes
      PROVE  /\ codes'[i] \in Code
             /\ codes'[i].kind = codes[i].kind /\ codes'[i].of = codes[i].of
             /\ codes'[i].state = IF i \in S THEN new ELSE codes[i].state
  <2>1. codes[i] \in Code
    BY <1>1
  <2>2. codes'[i] = IF i \in S THEN [codes[i] EXCEPT !.state = new] ELSE codes[i]
    BY DEF EndCodes
  <2>3. QED BY <2>1, <2>2 DEF Code, EndCodes
<1>3. DOMAIN codes' = DOMAIN codes /\ codes' = [i \in 1..Len(codes) |-> codes'[i]]
  BY <1>1 DEF EndCodes
<1>4. codes' \in Seq(Code)
  BY <1>1, <1>2, <1>3
<1>5. CodesFit'
  BY <1>2, <1>3, <1>4 DEF Inv, CodesFit
<1>6. ASSUME NEW u \in People PROVE StillNone(u)
  <2>1. SUFFICES ASSUME NoneLive(u), NEW i \in DOMAIN codes', codes'[i].of = u
                 PROVE  codes'[i].state # "live"
    BY DEF StillNone, NoneLive
  <2>2. QED BY <1>2, <1>3, <2>1 DEF NoneLive, EndCodes
<1>7. ASSUME NEW u \in People, {i \in DOMAIN codes : codes[i].of = u} \subseteq S
      PROVE  NoneLive(u)'
  <2>1. SUFFICES ASSUME NEW i \in DOMAIN codes', codes'[i].of = u
                 PROVE  codes'[i].state # "live"
    BY DEF NoneLive
  <2>2. QED BY <1>2, <1>3, <1>7, <2>1 DEF EndCodes
<1>8. QED BY <1>5, <1>6, <1>7

LEMMA EndCodesFits ==
  ASSUME Inv, UNCHANGED <<rowVars, ownedVars>>, JobsFit',
         \E S, new : EndCodes(S, new)
  PROVE  Inv'
<1>1. PICK S, new : EndCodes(S, new)
  OBVIOUS
<1>2. CodesFit' /\ \A u \in People : StillNone(u)
  BY <1>1, CodesEnd
<1>3. QED BY <1>2, CodesOnly

LEMMA SupersedeFits ==
  ASSUME Inv, NEW c \in Clerks, Supersede(c)
  PROVE  Inv'
<1>1. JobsFit'
  BY AtHas, ContinueFits DEF Supersede, Inv
<1>2. EndCodes(Live(job[c].kind, job[c].user), "used") /\ UNCHANGED <<rowVars, ownedVars>>
  BY DEF Supersede, EndCodes
<1>3. QED BY <1>1, <1>2, EndCodesFits

LEMMA MarkFits ==
  ASSUME Inv, NEW c \in Clerks, Mark(c)
  PROVE  Inv'
<1>1. CASE Fail(c)
  BY <1>1, FailFits
<1>2. CASE ~Fail(c)
  <2>1. /\ codes' = [codes EXCEPT ![job[c].code].state = "used"] /\ Continue(c)
        /\ UNCHANGED <<rowVars, ownedVars>>
    BY <1>2 DEF Mark
  <2>2. JobsFit'
    BY <2>1, AtHas, ContinueFits DEF Mark, Inv
  <2>3. EndCodes({job[c].code}, "used")
    <3>1. codes = [i \in DOMAIN codes |-> codes[i]]
      BY DEF Inv, CodesFit
    <3>2. QED BY <2>1, <3>1 DEF EndCodes
  <2>4. QED BY <2>1, <2>2, <2>3, EndCodesFits
<1>3. QED BY <1>1, <1>2

LEMMA ExpireFits ==
  ASSUME Inv, NEW i \in DOMAIN codes, Expire(i)
  PROVE  Inv'
<1>1. /\ codes' = [codes EXCEPT ![i].state = "expired"] /\ UNCHANGED <<rowVars, ownedVars, job>>
  BY DEF Expire
<1>2. codes = [k \in DOMAIN codes |-> codes[k]]
  BY DEF Inv, CodesFit
<1>3. EndCodes({i}, "expired")
  BY <1>1, <1>2 DEF EndCodes
<1>4. JobsFit'
  BY <1>1 DEF Inv, JobsFit
<1>5. QED BY <1>1, <1>3, <1>4, EndCodesFits

LEMMA PurgeFits ==
  ASSUME Inv, Purge
  PROVE  Inv'
<1>1. PICK S \in SUBSET {i \in DOMAIN codes : codes[i].state = "used"} :
        codes' = [i \in DOMAIN codes |->
                    IF i \in S \/ codes[i].state = "expired"
                    THEN [codes[i] EXCEPT !.state = "purged"] ELSE codes[i]]
  BY DEF Purge
<1>2. EndCodes(S \cup {i \in DOMAIN codes : codes[i].state = "expired"}, "purged")
  BY <1>1 DEF EndCodes
<1>3. UNCHANGED <<rowVars, ownedVars, job>>
  BY DEF Purge
<1>4. JobsFit'
  BY <1>3 DEF Inv, JobsFit
<1>5. QED BY <1>2, <1>3, <1>4, EndCodesFits

\* A code is only issued to an account that is there, or for an address.
LEMMA IssueFits ==
  ASSUME Inv, NEW c \in Clerks, Issue(c)
  PROVE  Inv'
<1> DEFINE of == IF job[c].kind = "register" THEN job[c].email ELSE job[c].user
           new == [kind |-> job[c].kind, of |-> of, state |-> "live"]
<1>1. UNCHANGED <<rowVars, ownedVars>> /\ Continue(c)
  BY DEF Issue
<1>2. JobsFit'
  BY <1>1, AtHas, ContinueFits DEF Issue, Inv
<1>3. CASE UNCHANGED codes
  BY <1>1, <1>2, <1>3, SameRows
<1>4. CASE (of \in People => Present(of)) /\ codes' = Append(codes, new)
  <2>1. /\ job[c].kind \in Kinds
        /\ of \in IF job[c].kind = "register" THEN Emails ELSE People
    BY JobTyped, AtHas DEF Issue, JobFits, JobState
  <2>2. new \in Code /\ new.of = of /\ new.kind = job[c].kind
    BY <2>1 DEF Code
  <2>3. /\ codes' = Append(codes, new) /\ codes \in Seq(Code)
        /\ \A i \in DOMAIN codes :
             codes[i].of \in IF codes[i].kind = "register" THEN Emails ELSE People
    BY <1>4 DEF Inv, CodesFit
  <2> HIDE DEF new
  <2>4. /\ codes' \in Seq(Code) /\ DOMAIN codes' = DOMAIN codes \cup {Len(codes) + 1}
        /\ \A i \in DOMAIN codes : codes'[i] = codes[i]
        /\ codes'[Len(codes) + 1] = new
    BY <2>2, <2>3
  <2> HIDE DEF of
  <2>5. CodesFit'
    BY <2>1, <2>2, <2>3, <2>4 DEF CodesFit
  <2>6. ASSUME NEW u \in People, ~Present(u), NoneLive(u), NEW i \in DOMAIN codes',
               codes'[i].of = u
        PROVE  codes'[i].state # "live"
    <3>1. CASE i \in DOMAIN codes
      BY <2>4, <2>6, <3>1 DEF NoneLive
    <3>2. CASE i = Len(codes) + 1
      BY <1>4, <2>2, <2>4, <2>6, <3>2
    <3>3. QED BY <2>4, <3>1, <3>2
  <2>7. ASSUME NEW u \in People, ~Present(u) PROVE StillNone(u)
    BY <2>6, <2>7 DEF StillNone, NoneLive
  <2>8. QED BY <1>1, <1>2, <2>5, <2>7, CodesOnly
<1>5. QED BY <1>3, <1>4 DEF Issue

-----------------------------------------------------------------------------
(***************************************************************************)
(* The rows.                                                               *)
(***************************************************************************)
\* No row goes, and nothing comes to belong to an account without one.
LEMMA NoneGoes ==
  ASSUME Inv, \A u \in People : users'[u] = Nobody => users[u] = Nobody,
         UNCHANGED <<ordered, bound>>, private' \subseteq private,
         \A u \in People : StillNone(u)
  PROVE  Owned'
<1>1. ASSUME NEW u \in People, ~Present(u)' PROVE NothingOf(u)'
  <2>1. NothingOf(u) /\ StillNone(u)
    BY <1>1 DEF Present, Inv, Owned
  <2>2. NoneLive(u)'
    BY <2>1 DEF StillNone, NothingOf
  <2>3. QED BY <2>1, <2>2 DEF NothingOf
<1>2. QED BY <1>1 DEF Owned

LEMMA SameCodes ==
  ASSUME Inv, UNCHANGED codes
  PROVE  CodesFit' /\ \A u \in People : StillNone(u)
<1>1. CodesFit'
  BY DEF Inv, CodesFit
<1>2. ASSUME NEW u \in People PROVE StillNone(u)
  BY DEF StillNone, NoneLive
<1>3. QED BY <1>1, <1>2

LEMMA PutRow ==
  ASSUME Inv, NEW u \in People, NEW row \in AccountRow, users' = [users EXCEPT ![u] = row]
  PROVE  /\ users' \in [People -> AccountRow \cup {Nobody}] /\ users'[u] = row
         /\ \A v \in People : users'[v] = Nobody => users[v] = Nobody
         /\ \A v \in People \ {u} : users'[v] = users[v]
BY NobodyAssumption DEF Inv, RowsTyped

LEMMA SaveRowFits ==
  ASSUME Inv, NEW u \in People, NEW old, NEW row \in AccountRow, SaveRow(u, old, row)
  PROVE  WritesSurvive' /\ users' \in [People -> AccountRow \cup {Nobody}]
         /\ intended' = [v \in People |-> intended'[v]] /\ DOMAIN intended' = People
         /\ \A v \in People : users'[v] = Nobody => users[v] = Nobody
<1>1. /\ users' \in [People -> AccountRow \cup {Nobody}] /\ users'[u] = row
      /\ \A v \in People : users'[v] = Nobody => users[v] = Nobody
      /\ \A v \in People \ {u} : users'[v] = users[v]
  BY PutRow DEF SaveRow
<1>2. /\ intended' = [v \in People |-> intended'[v]] /\ DOMAIN intended' = People
      /\ users[u] = old => intended'[u] = row
      /\ \A v \in People \ {u} : intended'[v] = intended[v]
  BY DEF SaveRow, Inv, RowsTyped
<1>3. WritesSurvive'
  BY <1>1, <1>2 DEF WritesSurvive, Inv, SaveRow
<1>4. QED BY <1>1, <1>2, <1>3

LEMMA WriteFits ==
  ASSUME Inv, NEW u \in People, Present(u), NEW column \in {"password", "active", "balance"},
         NEW value, Write(u, column, value), UNCHANGED <<clobbered, ownedVars, codes>>,
         [users[u] EXCEPT ![column] = value] \in AccountRow, JobsFit'
  PROVE  Inv'
<1> DEFINE row == [users[u] EXCEPT ![column] = value]
<1>1. users' = [users EXCEPT ![u] = row]
  BY DEF Write, Inv, RowsTyped
<1>2. /\ intended' = [v \in People |-> intended'[v]] /\ DOMAIN intended' = People
      /\ u \notin clobbered => intended'[u] = row
      /\ \A v \in People \ {u} : intended'[v] = intended[v]
  BY DEF Write, Inv, RowsTyped, WritesSurvive
<1> HIDE DEF row
<1>3. /\ users' \in [People -> AccountRow \cup {Nobody}] /\ users'[u] = row
      /\ \A v \in People : users'[v] = Nobody => users[v] = Nobody
      /\ \A v \in People \ {u} : users'[v] = users[v]
  BY <1>1, PutRow DEF row
<1>4. WritesSurvive'
  BY <1>2, <1>3 DEF WritesSurvive, Inv
<1>5. RowsTyped'
  BY <1>2, <1>3 DEF RowsTyped, Inv, ownedVars
<1>6. CodesFit' /\ Owned'
  BY <1>3, SameCodes, NoneGoes DEF ownedVars
<1>7. QED BY <1>4, <1>5, <1>6 DEF Inv

LEMMA SavePasswordFits ==
  ASSUME Inv, NEW c \in Clerks, SavePassword(c)
  PROVE  Inv'
<1>1. CASE Fail(c)
  BY <1>1, FailFits
<1>2. CASE ~Fail(c)
  <2> DEFINE u == job[c].user  word == job[c].word
  <2>1. /\ Present(u) /\ Write(u, "password", word) /\ Continue(c)
        /\ UNCHANGED <<clobbered, ownedVars, codes, keys>>
    BY <1>2 DEF SavePassword
  <2>2. word \in Passwords \cup {Nobody}
    BY JobTyped DEF JobState
  <2>3. JobsFit'
    BY <2>1, AtHas, ContinueFits DEF SavePassword, Inv
  <2> HIDE DEF u, word
  <2>4. CASE u \in People
    <3>1. users[u] \in AccountRow
      BY <2>1, <2>4, PresentRow
    <3>2. [users[u] EXCEPT !["password"] = word] \in AccountRow
      BY <2>2, <3>1 DEF AccountRow
    <3>3. QED BY <2>1, <2>3, <2>4, <3>2, WriteFits
  <2>5. CASE u \notin People
    <3>1. UNCHANGED <<users, intended>>
      BY <2>1, <2>5 DEF Write, Inv, RowsTyped
    <3>2. QED BY <2>1, <2>3, <3>1, SameRows DEF rowVars
  <2>6. QED BY <2>4, <2>5
<1>3. QED BY <1>1, <1>2

LEMMA SaveStatusFits ==
  ASSUME Inv, NEW c \in Clerks, SaveStatus(c)
  PROVE  Inv'
<1>1. CASE Fail(c)
  BY <1>1, FailFits
<1>2. CASE ~Fail(c)
  <2> DEFINE u == job[c].user  on == job[c].kind = "reactivate"
  <2>1. /\ Present(u) /\ Write(u, "active", on) /\ Continue(c)
        /\ UNCHANGED <<clobbered, ownedVars, codes, keys>>
    BY <1>2 DEF SaveStatus
  <2>2. on \in BOOLEAN
    OBVIOUS
  <2>3. JobsFit'
    BY <2>1, AtHas, ContinueFits DEF SaveStatus, Inv
  <2> HIDE DEF u, on
  <2>4. CASE u \in People
    <3>1. users[u] \in AccountRow
      BY <2>1, <2>4, PresentRow
    <3>2. [users[u] EXCEPT !["active"] = on] \in AccountRow
      BY <2>2, <3>1 DEF AccountRow
    <3>3. QED BY <2>1, <2>3, <2>4, <3>2, WriteFits
  <2>5. CASE u \notin People
    <3>1. UNCHANGED <<users, intended>>
      BY <2>1, <2>5 DEF Write, Inv, RowsTyped
    <3>2. QED BY <2>1, <2>3, <3>1, SameRows DEF rowVars
  <2>6. QED BY <2>4, <2>5
<1>3. QED BY <1>1, <1>2

LEMMA SetActiveFits ==
  ASSUME Inv, NEW u \in People, NEW on \in BOOLEAN, SetActive(u, on)
  PROVE  Inv'
<1>1. /\ Present(u) /\ Write(u, "active", on) /\ UNCHANGED <<clobbered, ownedVars, codes, job>>
  BY DEF SetActive
<1>2. users[u] \in AccountRow
  BY <1>1, PresentRow
<1>3. [users[u] EXCEPT !["active"] = on] \in AccountRow
  BY <1>2 DEF AccountRow
<1>4. JobsFit'
  BY <1>1 DEF Inv, JobsFit
<1>5. QED BY <1>1, <1>3, <1>4, WriteFits

LEMMA EarnFits ==
  ASSUME Inv, NEW u \in People, Earn(u)
  PROVE  Inv'
<1> DEFINE balance == users[u].balance + 1
<1>1. /\ Present(u) /\ Write(u, "balance", balance)
      /\ UNCHANGED <<clobbered, ownedVars, codes, job>>
  BY DEF Earn
<1>2. users[u] \in AccountRow
  BY <1>1, PresentRow
<1>3. balance \in 0..MaxBalance
  BY <1>2, BoundAssumption DEF AccountRow, Earn
<1> HIDE DEF balance
<1>4. [users[u] EXCEPT !["balance"] = balance] \in AccountRow
  BY <1>2, <1>3 DEF AccountRow
<1>5. JobsFit'
  BY <1>1 DEF Inv, JobsFit
<1>6. QED BY <1>1, <1>4, <1>5, WriteFits

LEMMA CreateFits ==
  ASSUME Inv, NEW c \in Clerks, Create(c)
  PROVE  Inv'
<1>1. CASE Fail(c)
  BY <1>1, FailFits
<1>2. CASE ~Fail(c)
  <2> DEFINE j == job[c]
             row == [email |-> j.email, password |-> j.word, active |-> TRUE, balance |-> 0,
                     rank |-> IF j.kind = "register" THEN "customer" ELSE "staff"]
  <2>1. PICK u \in People :
          /\ users' = [users EXCEPT ![u] = row] /\ intended' = [intended EXCEPT ![u] = row]
          /\ job' = [job EXCEPT ![c].todo = Tail(@), ![c].user = u]
          /\ UNCHANGED <<clobbered, ownedVars, codes>>
    BY <1>2 DEF Create
  <2>2. /\ j \in JobState /\ JobFits(j) /\ j.todo # <<>> /\ j.todo \in Seq(Steps)
        /\ j.email \in Emails \cup People /\ j.word \in Passwords \cup {Nobody}
    BY JobTyped, AtHas DEF Create, JobFits, JobState
  <2>3. row \in AccountRow
    BY <2>2, BoundAssumption DEF AccountRow
  <2>4. JobsFit'
    <3> DEFINE new == [j EXCEPT !.todo = Tail(j.todo), !.user = u]
    <3>1. job' = [job EXCEPT ![c] = new]
      BY <2>1 DEF Inv, JobsFit
    <3>2. Tail(j.todo) \in Seq(Steps)
      BY <2>2
    <3>3. /\ new \in JobState /\ new.todo = Tail(j.todo) /\ new.row = j.row
          /\ new.email = j.email /\ new.kind = j.kind /\ new.user = u
      BY <2>2, <3>2 DEF JobState
    <3> HIDE DEF new, j
    <3>4. JobFits(new)
      BY <2>2, <3>3, RestFits
    <3>5. QED BY <3>1, <3>3, <3>4, OneJob DEF Inv
  <2> HIDE DEF row, j
  <2>5. /\ users' \in [People -> AccountRow \cup {Nobody}] /\ users'[u] = row
        /\ \A v \in People : users'[v] = Nobody => users[v] = Nobody
        /\ \A v \in People \ {u} : users'[v] = users[v]
    BY <2>1, <2>3, PutRow
  <2>6. /\ intended' = [v \in People |-> intended'[v]] /\ DOMAIN intended' = People
        /\ intended'[u] = row /\ \A v \in People \ {u} : intended'[v] = intended[v]
    BY <2>1 DEF Inv, RowsTyped
  <2>7. WritesSurvive'
    BY <2>1, <2>5, <2>6 DEF WritesSurvive, Inv
  <2>8. RowsTyped'
    BY <2>1, <2>5, <2>6 DEF RowsTyped, Inv, ownedVars
  <2>9. CodesFit' /\ Owned'
    BY <2>1, <2>5, SameCodes, NoneGoes DEF ownedVars
  <2>10. QED BY <2>4, <2>7, <2>8, <2>9 DEF Inv
<1>3. QED BY <1>1, <1>2

LEMMA SaveFits ==
  ASSUME Inv, NEW c \in Clerks, Save(c)
  PROVE  Inv'
<1>1. CASE Fail(c)
  BY <1>1, FailFits
<1>2. CASE ~Fail(c)
  <2> DEFINE j == job[c]
             u == j.user
             row == [j.row EXCEPT !.email = j.email]
  <2>1. /\ SaveRow(u, j.row, row) /\ Continue(c) /\ UNCHANGED <<ownedVars, codes>>
    BY <1>2 DEF Save
  <2>2. u \in People /\ j.row \in AccountRow /\ j.email \in Emails \cup People
    BY JobTyped, AtHas DEF Save, JobFits
  <2>3. row \in AccountRow
    BY <2>2 DEF AccountRow
  <2>4. JobsFit'
    BY <2>1, AtHas, ContinueFits DEF Save, Inv
  <2> HIDE DEF row, u
  <2>5. WritesSurvive' /\ users' \in [People -> AccountRow \cup {Nobody}]
        /\ intended' = [v \in People |-> intended'[v]] /\ DOMAIN intended' = People
        /\ \A v \in People : users'[v] = Nobody => users[v] = Nobody
    BY <2>1, <2>2, <2>3, SaveRowFits
  <2>6. RowsTyped'
    BY <2>1, <2>5 DEF RowsTyped, Inv, ownedVars
  <2>7. CodesFit' /\ Owned'
    BY <2>1, <2>5, SameCodes, NoneGoes DEF ownedVars
  <2>8. QED BY <2>4, <2>5, <2>6, <2>7 DEF Inv
<1>3. QED BY <1>1, <1>2

-----------------------------------------------------------------------------
(***************************************************************************)
(* What belongs to an account.                                             *)
(***************************************************************************)
\* Nothing changes but what belongs to an account that is there.
LEMMA OwnedOnly ==
  ASSUME Inv, UNCHANGED <<rowVars, codes>>, JobsFit',
         bound' \in [People -> Roles \cup {Nobody}], roles' \subseteq Roles,
         \A u \in People : ~Present(u) =>
            /\ u \in ordered' \cup private' => u \in ordered \cup private
            /\ bound'[u] \in {bound[u], Nobody}
  PROVE  Inv'
<1>1. RowsTyped' /\ WritesSurvive'
  BY DEF Inv, RowsTyped, WritesSurvive, rowVars
<1>2. CodesFit' /\ \A u \in People : StillNone(u)
  BY SameCodes
<1>3. ASSUME NEW u \in People, ~Present(u)' PROVE NothingOf(u)'
  <2>1. ~Present(u)
    BY <1>3 DEF Present, rowVars
  <2>2. NothingOf(u) /\ StillNone(u)
    BY <1>2, <2>1 DEF Inv, Owned
  <2>3. NoneLive(u)'
    BY <2>2 DEF StillNone, NothingOf
  <2>4. QED BY <2>1, <2>2, <2>3 DEF NothingOf
<1>4. Owned'
  BY <1>3 DEF Owned
<1>5. QED BY <1>1, <1>2, <1>4 DEF Inv

LEMMA BindFits ==
  ASSUME Inv, NEW c \in Clerks, Bind(c)
  PROVE  Inv'
<1>1. CASE Fail(c)
  BY <1>1, FailFits
<1>2. CASE ~Fail(c)
  <2> DEFINE u == job[c].user  role == job[c].role
  <2>1. /\ Present(u) \/ role \notin roles
        /\ bound' = [bound EXCEPT ![u] = IF role \in roles THEN role ELSE Nobody]
        /\ Continue(c) /\ UNCHANGED <<rowVars, private, ordered, roles, codes>>
    BY <1>2 DEF Bind
  <2>2. JobsFit'
    BY <2>1, AtHas, ContinueFits DEF Bind, Inv
  <2> HIDE DEF u, role
  <2>3. bound' \in [People -> Roles \cup {Nobody}] /\ roles' \subseteq Roles
    BY <2>1 DEF Inv, RowsTyped
  <2>4. ASSUME NEW v \in People, ~Present(v) PROVE bound'[v] \in {bound[v], Nobody}
    BY <2>1, <2>4 DEF Inv, RowsTyped
  <2>5. QED BY <2>1, <2>2, <2>3, <2>4, OwnedOnly
<1>3. QED BY <1>1, <1>2

LEMMA DropFits ==
  ASSUME Inv, NEW c \in Clerks, Drop(c)
  PROVE  Inv'
<1> DEFINE role == job[c].role
<1>1. /\ roles' = roles \ {role}
      /\ bound' = [u \in People |-> IF bound[u] = role THEN Nobody ELSE bound[u]]
      /\ Continue(c) /\ UNCHANGED <<rowVars, private, ordered, codes>>
  BY DEF Drop
<1>2. JobsFit'
  BY <1>1, AtHas, ContinueFits DEF Drop, Inv
<1>3. /\ bound' \in [People -> Roles \cup {Nobody}] /\ roles' \subseteq Roles
      /\ \A u \in People : bound'[u] \in {bound[u], Nobody}
  BY <1>1 DEF Inv, RowsTyped
<1>4. QED BY <1>1, <1>2, <1>3, OwnedOnly

LEMMA OrderFits ==
  ASSUME Inv, NEW u \in People, PlaceOrder(u) \/ AddAddress(u)
  PROVE  Inv'
<1>1. /\ Present(u) /\ UNCHANGED <<rowVars, bound, roles, codes, job>>
      /\ ordered' \subseteq ordered \cup {u} /\ private' \subseteq private \cup {u}
  BY DEF PlaceOrder, AddAddress, Active
<1>2. JobsFit'
  BY <1>1 DEF Inv, JobsFit
<1>3. bound' \in [People -> Roles \cup {Nobody}] /\ roles' \subseteq Roles
  BY <1>1 DEF Inv, RowsTyped
<1>4. QED BY <1>1, <1>2, <1>3, OwnedOnly

LEMMA ReadOrdersFits ==
  ASSUME Inv, NEW c \in Clerks, ReadOrders(c)
  PROVE  Inv'
<1> DEFINE j == job[c]
           read == j.user \in ordered
           new == [j EXCEPT !.todo = Tail(j.todo), !.orders = read]
<1>1. /\ j \in JobState /\ JobFits(j) /\ j.todo # <<>> /\ j.todo \in Seq(Steps)
      /\ read \in BOOLEAN
  BY JobTyped, AtHas DEF ReadOrders
<1>2. /\ job' = [job EXCEPT ![c] = new] /\ UNCHANGED <<rowVars, ownedVars, codes>>
  BY DEF ReadOrders, Inv, JobsFit
<1>3. Tail(j.todo) \in Seq(Steps)
  BY <1>1
<1> HIDE DEF read
<1>4. /\ new \in JobState /\ new.todo = Tail(j.todo) /\ new.row = j.row
      /\ new.email = j.email /\ new.kind = j.kind /\ new.user = j.user
  BY <1>1, <1>3 DEF JobState
<1> HIDE DEF new, j
<1>5. JobFits(new)
  BY <1>1, <1>4, RestFits
<1>6. QED BY <1>2, <1>4, <1>5, OneJob, SameRows DEF Inv

\* With a row goes all that belongs to it.
LEMMA DeleteRowFits ==
  ASSUME Inv, NEW u, u \notin ordered, DeleteRow(u), JobsFit'
  PROVE  Inv'
<1>1. /\ users' = [users EXCEPT ![u] = Nobody] /\ intended' = [intended EXCEPT ![u] = Nobody]
      /\ private' = private \ {u} /\ bound' = [bound EXCEPT ![u] = Nobody]
      /\ UNCHANGED <<clobbered, ordered, roles>>
  BY DEF DeleteRow
<1> DEFINE S == {i \in DOMAIN codes : codes[i].kind \in Kinds /\ codes[i].of = u}
<1>2. EndCodes(S, "purged")
  <2>1. codes' = [i \in DOMAIN codes |-> IF codes[i].kind \in Kinds /\ codes[i].of = u
                          THEN [codes[i] EXCEPT !.state = "purged"] ELSE codes[i]]
    BY DEF DeleteRow, Purged
  <2>2. QED BY <2>1 DEF EndCodes
<1>3. {i \in DOMAIN codes : codes[i].of = u} \subseteq S
  BY CodeTyped
<1> HIDE DEF S
<1>4. /\ CodesFit' /\ \A v \in People : StillNone(v)
      /\ u \in People => NoneLive(u)'
  BY <1>2, <1>3, CodesEnd
<1>5. RowsTyped'
  BY <1>1 DEF Inv, RowsTyped
<1>6. WritesSurvive'
  BY <1>1 DEF Inv, RowsTyped, WritesSurvive
<1>7. ASSUME NEW v \in People, ~Present(v)' PROVE NothingOf(v)'
  <2>1. CASE v = u
    <3>1. v \notin ordered' \cup private' /\ bound'[v] = Nobody
      <4>1. v \notin private
            \/ private' = private \ {v}
        BY <1>1, <2>1
      <4>2. bound'[v] = Nobody
        BY <1>1, <2>1 DEF Inv, RowsTyped
      <4>3. QED BY <1>1, <2>1, <4>1, <4>2
    <3>2. \A i \in DOMAIN codes' : codes'[i].of = v => codes'[i].state # "live"
      BY <1>4, <2>1 DEF NoneLive
    <3>3. QED BY <3>1, <3>2 DEF NothingOf, NoneLive
  <2>2. CASE v # u
    <3>1. users'[v] = users[v] /\ bound'[v] = bound[v]
      BY <1>1, <2>2 DEF Inv, RowsTyped
    <3>2. NothingOf(v) /\ StillNone(v)
      BY <1>4, <1>7, <3>1 DEF Present, Inv, Owned
    <3>3. NoneLive(v)'
      BY <3>2 DEF StillNone, NothingOf
    <3>4. QED BY <1>1, <3>1, <3>2, <3>3 DEF NothingOf
  <2>3. QED BY <2>1, <2>2
<1>8. Owned'
  BY <1>7 DEF Owned
<1>9. QED BY <1>4, <1>5, <1>6, <1>8 DEF Inv

LEMMA AnonymiseFits ==
  ASSUME Inv, NEW c \in Clerks, At(c, "erase"), Anonymise(c), JobsFit'
  PROVE  Inv'
<1> DEFINE j == job[c]
           u == j.user
           row == [j.row EXCEPT !.email = u, !.password = Nobody, !.active = FALSE]
<1>1. /\ SaveRow(u, j.row, row) /\ UNCHANGED <<ordered, bound, roles>>
      /\ private' \subseteq private
  BY DEF Anonymise
<1>2. u \in People /\ j.row \in AccountRow
  BY JobTyped, AtHas DEF JobFits
<1>3. row \in AccountRow
  BY <1>2 DEF AccountRow
<1>4. \E S : EndCodes(S, "purged")
  <2> DEFINE kinds == Kinds \ {"register", "login"}
  <2>1. codes' = [i \in DOMAIN codes |-> IF codes[i].kind \in kinds /\ codes[i].of = u
                          THEN [codes[i] EXCEPT !.state = "purged"] ELSE codes[i]]
    BY DEF Anonymise, Purged
  <2> HIDE DEF kinds, u
  <2>2. EndCodes({i \in DOMAIN codes : codes[i].kind \in kinds /\ codes[i].of = u}, "purged")
    BY <2>1 DEF EndCodes
  <2>3. QED BY <2>2
<1> HIDE DEF row, u
<1>5. WritesSurvive' /\ users' \in [People -> AccountRow \cup {Nobody}]
      /\ intended' = [v \in People |-> intended'[v]] /\ DOMAIN intended' = People
      /\ \A v \in People : users'[v] = Nobody => users[v] = Nobody
  BY <1>1, <1>2, <1>3, SaveRowFits
<1>6. RowsTyped'
  BY <1>1, <1>5 DEF RowsTyped, Inv
<1>7. CodesFit' /\ \A v \in People : StillNone(v)
  BY <1>4, CodesEnd
<1>8. Owned'
  BY <1>1, <1>5, <1>7, NoneGoes
<1>9. QED BY <1>5, <1>6, <1>7, <1>8 DEF Inv

LEMMA EraseFits ==
  ASSUME Inv, NEW c \in Clerks, Erase(c)
  PROVE  Inv'
<1>1. CASE Fail(c)
  BY <1>1, FailFits
<1>2. CASE ~Fail(c)
  <2>1. /\ job[c].orders \/ job[c].user \notin ordered
        /\ IF job[c].orders THEN Anonymise(c) ELSE DeleteRow(job[c].user)
        /\ Continue(c) /\ At(c, "erase")
    BY <1>2 DEF Erase
  <2>2. JobsFit'
    BY <2>1, AtHas, ContinueFits DEF Inv
  <2>3. CASE job[c].orders
    BY <2>1, <2>2, <2>3, AnonymiseFits
  <2>4. CASE ~job[c].orders
    BY <2>1, <2>2, <2>4, DeleteRowFits
  <2>5. QED BY <2>3, <2>4
<1>3. QED BY <1>1, <1>2

LEMMA RemoveFits ==
  ASSUME Inv, NEW c \in Clerks, Remove(c)
  PROVE  Inv'
<1>1. CASE Fail(c)
  BY <1>1, FailFits
<1>2. CASE ~Fail(c)
  <2>1. job[c].user \notin ordered /\ DeleteRow(job[c].user) /\ Continue(c)
    BY <1>2 DEF Remove
  <2>2. JobsFit'
    BY <2>1, AtHas, ContinueFits DEF Remove, Inv
  <2>3. QED BY <2>1, <2>2, DeleteRowFits
<1>3. QED BY <1>1, <1>2

-----------------------------------------------------------------------------
LEMMA StepFits ==
  ASSUME Inv, NEW c \in Clerks, Step(c)
  PROVE  Inv'
BY SupersedeFits, IssueFits, MarkFits, CreateFits, SavePasswordFits, SaveStatusFits, SaveFits,
   BindFits, ReadOrdersFits, EraseFits, RemoveFits, DropFits, FailFits DEF Step, Die

LEMMA NextFits == Inv /\ [AccountsNext]_accountVars => Inv'
<1> SUFFICES ASSUME Inv, [AccountsNext]_accountVars PROVE Inv'
  OBVIOUS
<1>1. CASE UNCHANGED accountVars
  <2>1. UNCHANGED <<rowVars, ownedVars, codes, job>>
    BY <1>1 DEF accountVars
  <2>2. JobsFit'
    BY <2>1 DEF Inv, JobsFit
  <2>3. QED BY <2>1, <2>2, SameRows
<1>2. ASSUME NEW c \in Clerks,
             \/ \E e \in Emails : AskToRegister(c, e)
             \/ \E u \in People : AskAny(c, u)
             \/ \E i \in DOMAIN codes : UseAny(c, i)
             \/ AskOfStaff(c) \/ Step(c)
      PROVE  Inv'
  BY <1>2, AskToRegisterFits, AskFits, UseAnyFits, AskOfStaffFits, StepFits
<1>3. ASSUME NEW u \in People,
             \/ \E on \in BOOLEAN : SetCustomerStatus(u, on)
             \/ \E by \in People : DeactivateStaff(by, u) \/ ReactivateStaff(by, u)
             \/ Earn(u) \/ PlaceOrder(u) \/ AddAddress(u)
      PROVE  Inv'
  <2>1. CASE \E on \in BOOLEAN : SetActive(u, on)
    BY <2>1, SetActiveFits
  <2>2. QED
    BY <1>3, <2>1, EarnFits, OrderFits DEF SetCustomerStatus, DeactivateStaff, ReactivateStaff
<1>4. ASSUME NEW i \in DOMAIN codes, Expire(i) PROVE Inv'
  BY <1>4, ExpireFits
<1>5. CASE Purge
  BY <1>5, PurgeFits
<1>6. QED BY <1>1, <1>2, <1>3, <1>4, <1>5 DEF AccountsNext

LEMMA InitFits == AccountsInit => Inv
<1> SUFFICES ASSUME AccountsInit PROVE Inv
  OBVIOUS
<1>1. users \in [People -> AccountRow \cup {Nobody}] /\ intended = users
  BY ScenariosAssumption DEF AccountsInit
<1>2. /\ bound = [u \in People |-> Nobody] /\ roles = Roles /\ codes = <<>>
      /\ private = {} /\ ordered = {}
  BY DEF AccountsInit
<1>3. DOMAIN codes = {} /\ codes \in Seq(Code)
  BY <1>2
<1>4. RowsTyped /\ WritesSurvive
  BY <1>1, <1>2 DEF RowsTyped, WritesSurvive
<1>5. CodesFit
  BY <1>3 DEF CodesFit
<1>6. Owned
  BY <1>2, <1>3 DEF Owned, NothingOf, NoneLive
<1>7. JobsFit
  <2>1. job = [c \in Clerks |-> Idle]
    BY DEF AccountsInit
  <2> HIDE DEF Idle
  <2>2. QED BY <2>1, IdleFits DEF JobsFit
<1>8. QED BY <1>4, <1>5, <1>6, <1>7 DEF Inv

LEMMA AlwaysInv == Spec => []Inv
BY InitFits, NextFits, PTL DEF Spec

\* A request that names the columns it saves is never undone but by the save of a whole
\* row, for any number of accounts, codes and threads, wherever a thread dies.
THEOREM WritesAreKept == Spec => []WritesSurvive
<1>1. Inv => WritesSurvive
  BY DEF Inv
<1>2. QED BY <1>1, AlwaysInv, PTL

\* No order, address, role or code in force belongs to an account that was deleted.
THEOREM NothingIsOrphaned == Spec => []RowsHaveOwners
<1>1. Inv => RowsHaveOwners
  <2> SUFFICES ASSUME Inv, NEW u \in People, ~Present(u)
               PROVE  /\ u \notin ordered \cup private /\ bound[u] = Nobody
                      /\ \A kind \in Kinds : Live(kind, u) = {}
    BY DEF RowsHaveOwners
  <2>1. NothingOf(u)
    BY DEF Inv, Owned
  <2>2. QED BY <2>1 DEF NothingOf, NoneLive, Live
<1>2. QED BY <1>1, AlwaysInv, PTL

-----------------------------------------------------------------------------
(***************************************************************************)
(* Codes in force, and the threads that are about to issue one.            *)
(***************************************************************************)
Tickets(kind, u) ==
  {c \in Clerks : job[c].kind = kind /\ job[c].user = u /\ job[c].todo = <<"issue">>}

FewOf(kind, u) == Cardinality(Live(kind, u)) + Cardinality(Tickets(kind, u)) <= Cardinality(Clerks)

Few == \A u \in People, kind \in Superseding : FewOf(kind, u)

NoNewCodes ==
  /\ DOMAIN codes' = DOMAIN codes
  /\ \A i \in DOMAIN codes : /\ codes'[i].kind = codes[i].kind /\ codes'[i].of = codes[i].of
                             /\ codes'[i].state = "live" => codes[i].state = "live"

NoNewTickets ==
  \A c \in Clerks : job'[c].todo = <<"issue">> /\ job'[c].kind \in Superseding =>
    /\ job[c].todo = <<"issue">>
    /\ job[c].kind = job'[c].kind /\ job[c].user = job'[c].user

LEMMA EmptyPlan == <<>> # <<"issue">>
<1>1. Len(<<>>) # Len(<<"issue">>)
  OBVIOUS
<1>2. QED BY <1>1

LEMMA TwoSteps ==
  ASSUME NEW s \in Seq(Steps), s # <<>>, Tail(s) = <<"issue">>
  PROVE  Len(s) = 2 /\ s[2] = "issue" /\ s[1] = Head(s)
<1>1. Len(Tail(s)) = 1 /\ Tail(s)[1] = "issue"
  <2>1. Len(<<"issue">>) = 1 /\ <<"issue">>[1] = "issue"
    OBVIOUS
  <2>2. QED BY <2>1
<1>2. Len(s) \in Nat /\ Len(Tail(s)) = Len(s) - 1
  OBVIOUS
<1>3. Len(s) = 2
  BY <1>1, <1>2
<1>4. Tail(s)[1] = s[2]
  BY <1>3
<1>5. QED BY <1>1, <1>3, <1>4

LEMMA LiveFinite ==
  ASSUME Inv, NEW kind, NEW u
  PROVE  /\ IsFiniteSet(Live(kind, u)) /\ IsFiniteSet(Tickets(kind, u))
         /\ Cardinality(Live(kind, u)) \in Nat /\ Cardinality(Tickets(kind, u)) \in Nat
         /\ Cardinality(Clerks) \in Nat
<1>1. DOMAIN codes = 1..Len(codes) /\ Len(codes) \in Nat
  BY DEF Inv, CodesFit
<1>2. IsFiniteSet(DOMAIN codes)
  BY <1>1, FS_Interval
<1>3. IsFiniteSet(Live(kind, u))
  BY <1>2, FS_Subset DEF Live
<1>4. IsFiniteSet(Tickets(kind, u))
  BY ClerksAssumption, FS_Subset DEF Tickets
<1>5. QED BY <1>3, <1>4, ClerksAssumption, FS_CardinalityType

LEMMA FewerLive ==
  ASSUME Inv, NoNewCodes, NEW kind, NEW u
  PROVE  Live(kind, u)' \subseteq Live(kind, u)
BY DEF NoNewCodes, Live

LEMMA FewerTickets ==
  ASSUME Inv, NoNewTickets, NEW kind \in Superseding, NEW u
  PROVE  Tickets(kind, u)' \subseteq Tickets(kind, u)
BY DEF NoNewTickets, Tickets

LEMMA FewOfStays ==
  ASSUME Inv, NEW kind, NEW u, FewOf(kind, u),
         Live(kind, u)' \subseteq Live(kind, u), Tickets(kind, u)' \subseteq Tickets(kind, u)
  PROVE  FewOf(kind, u)'
<1> DEFINE L == Live(kind, u)  T == Tickets(kind, u)
<1>1. /\ IsFiniteSet(L) /\ IsFiniteSet(T) /\ Cardinality(L) \in Nat /\ Cardinality(T) \in Nat
      /\ Cardinality(Clerks) \in Nat
  BY LiveFinite
<1>2. Cardinality(L) + Cardinality(T) <= Cardinality(Clerks)
  BY DEF FewOf
<1>3. PICK L1 \in {Live(kind, u)'}, T1 \in {Tickets(kind, u)'} : L1 \subseteq L /\ T1 \subseteq T
  OBVIOUS
<1> HIDE DEF L, T
<1>4. /\ IsFiniteSet(L1) /\ Cardinality(L1) <= Cardinality(L)
      /\ IsFiniteSet(T1) /\ Cardinality(T1) <= Cardinality(T)
  BY <1>1, <1>3, FS_Subset
<1>5. Cardinality(L1) \in Nat /\ Cardinality(T1) \in Nat
  BY <1>4, FS_CardinalityType
<1>6. Cardinality(L1) + Cardinality(T1) <= Cardinality(Clerks)
  BY <1>1, <1>2, <1>4, <1>5
<1>7. QED BY <1>3, <1>6 DEF FewOf

LEMMA FewStays ==
  ASSUME Inv, Few, NoNewCodes, NoNewTickets
  PROVE  Few'
<1>1. ASSUME NEW u \in People, NEW kind \in Superseding PROVE FewOf(kind, u)'
  <2>1. FewOf(kind, u)
    BY DEF Few
  <2>2. QED BY <2>1, FewerLive, FewerTickets, FewOfStays
<1>2. QED BY <1>1 DEF Few

-----------------------------------------------------------------------------
LEMMA SameCodesNone ==
  ASSUME UNCHANGED codes
  PROVE  NoNewCodes
BY DEF NoNewCodes

LEMMA EndCodesNone ==
  ASSUME Inv, NEW S, NEW new, EndCodes(S, new)
  PROVE  NoNewCodes
<1>1. ASSUME NEW i \in DOMAIN codes
      PROVE  /\ codes'[i].kind = codes[i].kind /\ codes'[i].of = codes[i].of
             /\ codes'[i].state = "live" => codes[i].state = "live"
  <2>1. codes[i] \in Code
    BY CodeTyped
  <2>2. codes'[i] = IF i \in S THEN [codes[i] EXCEPT !.state = new] ELSE codes[i]
    BY DEF EndCodes
  <2>3. QED BY <2>1, <2>2 DEF Code, EndCodes
<1>2. QED BY <1>1 DEF NoNewCodes, EndCodes

LEMMA PurgedNone ==
  ASSUME Inv, NEW kinds, NEW u, codes' = Purged(kinds, u)
  PROVE  NoNewCodes
<1> DEFINE S == {i \in DOMAIN codes : codes[i].kind \in kinds /\ codes[i].of = u}
<1>1. EndCodes(S, "purged")
  BY DEF EndCodes, Purged
<1>2. QED BY <1>1, EndCodesNone

\* A thread takes up something else than to issue a code.
LEMMA OtherJobNone ==
  ASSUME Inv, NEW c \in Clerks, NEW new, job' = [job EXCEPT ![c] = new],
         new.todo = <<"issue">> => new.kind \notin Superseding
  PROVE  NoNewTickets
<1>1. ASSUME NEW d \in Clerks PROVE job'[d] = IF d = c THEN new ELSE job[d]
  BY DEF Inv, JobsFit
<1>2. QED BY <1>1 DEF NoNewTickets

LEMMA FailNone ==
  ASSUME Inv, NEW c \in Clerks, Fail(c)
  PROVE  NoNewCodes /\ NoNewTickets
<1>1. Idle.todo # <<"issue">>
  BY IdleFits
<1>2. QED BY <1>1, OtherJobNone, SameCodesNone DEF Fail

LEMMA TailNone ==
  ASSUME Inv, NEW c \in Clerks, NEW step, At(c, step), step # "supersede",
         NEW new, new.todo = Tail(job[c].todo), new.kind = job[c].kind
  PROVE  new.todo = <<"issue">> => new.kind \notin Superseding
<1>1. /\ JobFits(job[c]) /\ job[c].todo \in Seq(Steps) /\ job[c].todo # <<>>
      /\ Head(job[c].todo) = step
  BY JobTyped DEF At
<1>2. SUFFICES ASSUME Tail(job[c].todo) = <<"issue">>, job[c].kind \in Superseding PROVE FALSE
  OBVIOUS
<1>3. Len(job[c].todo) = 2 /\ job[c].todo[2] = "issue" /\ job[c].todo[1] = step
  BY <1>1, <1>2, TwoSteps
<1>4. Has(job[c], "issue")
  BY <1>1, <1>3 DEF Has
<1>5. job[c].todo \in {<<"issue">>, <<"supersede", "issue">>}
  BY <1>1, <1>2, <1>4 DEF JobFits
<1>6. QED BY <1>3, <1>5

LEMMA ContinueNone ==
  ASSUME Inv, NEW c \in Clerks, NEW step, At(c, step), step # "supersede", Continue(c)
  PROVE  NoNewTickets
<1> DEFINE new == [job[c] EXCEPT !.todo = Tail(job[c].todo)]
<1>1. job' = [job EXCEPT ![c] = Idle] \/ job' = [job EXCEPT ![c] = new]
  BY DEF Continue
<1>2. new.todo = Tail(job[c].todo) /\ new.kind = job[c].kind
  BY JobTyped DEF JobState
<1> HIDE DEF new
<1>3. new.todo = <<"issue">> => new.kind \notin Superseding
  BY <1>2, TailNone
<1>4. Idle.todo # <<"issue">>
  BY IdleFits
<1>5. QED BY <1>1, <1>3, <1>4, OtherJobNone

LEMMA ServeNone ==
  ASSUME Inv, NEW c \in Clerks, NEW request, NEW j, Serve(c, request, j),
         j.todo = <<"issue">> => j.kind \notin Superseding
  PROVE  NoNewCodes /\ NoNewTickets
BY OtherJobNone, SameCodesNone DEF Serve

\* Whatever else the record holds, its plan is the one that is given.
LEMMA PlanOf ==
  \A kind, user, row, code, email, word, role, todo :
    /\ [Idle EXCEPT !.kind = kind, !.user = user, !.todo = todo].todo = todo
    /\ [Idle EXCEPT !.kind = kind, !.user = user, !.todo = todo].kind = kind
    /\ [Idle EXCEPT !.kind = kind, !.email = email, !.todo = todo].todo = todo
    /\ [Idle EXCEPT !.kind = kind, !.email = email, !.todo = todo].kind = kind
    /\ [Idle EXCEPT !.kind = kind, !.code = code, !.word = word, !.email = email,
                    !.todo = todo].todo = todo
    /\ [Idle EXCEPT !.kind = kind, !.code = code, !.word = word, !.todo = todo,
                    !.user = user, !.row = row].todo = todo
    /\ [Idle EXCEPT !.email = email, !.word = word, !.role = role, !.todo = todo].todo = todo
    /\ [Idle EXCEPT !.user = user, !.row = row, !.email = email, !.role = role,
                    !.todo = todo].todo = todo
    /\ [Idle EXCEPT !.user = user, !.todo = todo].todo = todo
    /\ [Idle EXCEPT !.role = role, !.todo = todo].todo = todo
BY DEF Idle

LEMMA AskNone ==
  ASSUME Inv, NEW c \in Clerks, NEW u \in People, AskAny(c, u)
  PROVE  NoNewCodes /\ NoNewTickets
<1>1. PICK kind \in Kinds : Ask(c, kind, u)
  BY DEF AskAny, AskToReset, AskToChange, AskToDeactivate, AskToDelete, AskToReactivate,
         AskToLogIn, Kinds
<1> DEFINE plan == IF kind \in Superseding THEN <<"supersede", "issue">> ELSE <<"issue">>
           new == [Idle EXCEPT !.kind = kind, !.user = u, !.todo = plan]
<1>2. Serve(c, kind, new)
  BY <1>1 DEF Ask
<1>3. plan = <<"issue">> => kind \notin Superseding
  OBVIOUS
<1> HIDE DEF plan
<1>4. new.todo = plan /\ new.kind = kind
  BY PlanOf
<1> HIDE DEF new
<1>5. QED BY <1>2, <1>3, <1>4, ServeNone

LEMMA AskToRegisterNone ==
  ASSUME Inv, NEW c \in Clerks, NEW e \in Emails, AskToRegister(c, e)
  PROVE  NoNewCodes /\ NoNewTickets
<1> DEFINE new == [Idle EXCEPT !.kind = "register", !.email = e, !.todo = <<"issue">>]
<1>1. Serve(c, "register", new)
  BY DEF AskToRegister
<1>2. new.kind = "register"
  BY PlanOf
<1> HIDE DEF new
<1>3. QED BY <1>1, <1>2, ServeNone DEF Superseding

LEMMA UseNone ==
  ASSUME Inv, NEW c \in Clerks, NEW i, NEW word, NEW plan, plan # <<"issue">>,
         Use(c, i, word, plan)
  PROVE  NoNewCodes /\ NoNewTickets
<1> DEFINE new == [Idle EXCEPT !.kind = codes[i].kind, !.code = i, !.word = word, !.todo = plan,
                               !.user = codes[i].of, !.row = users[codes[i].of]]
<1>1. Serve(c, codes[i].kind, new)
  BY DEF Use
<1>2. new.todo = plan
  BY PlanOf
<1> HIDE DEF new
<1>3. QED BY <1>1, <1>2, ServeNone

LEMMA UseAnyNone ==
  ASSUME Inv, NEW c \in Clerks, NEW i \in DOMAIN codes, UseAny(c, i)
  PROVE  NoNewCodes /\ NoNewTickets
<1>1. ASSUME NEW word \in Passwords, Register(c, i, word)
      PROVE  NoNewCodes /\ NoNewTickets
  <2> DEFINE plan == <<"create", "mark">>
             new == [Idle EXCEPT !.kind = "register", !.code = i, !.word = word,
                                 !.email = codes[i].of, !.todo = plan]
  <2>1. Serve(c, "register", new)
    BY <1>1 DEF Register
  <2>2. plan # <<"issue">>
    OBVIOUS
  <2> HIDE DEF plan
  <2>3. new.todo = plan
    BY PlanOf
  <2> HIDE DEF new
  <2>4. QED BY <2>1, <2>2, <2>3, ServeNone
<1>2. ASSUME NEW word, NEW a, NEW b, Use(c, i, word, <<a, b>>)
      PROVE  NoNewCodes /\ NoNewTickets
  <2>1. PICK plan : plan = <<a, b>> /\ Use(c, i, word, plan)
    BY <1>2
  <2>2. QED BY <2>1, UseNone
<1>3. ASSUME NEW word, NEW a, NEW b, NEW d, Use(c, i, word, <<a, b, d>>)
      PROVE  NoNewCodes /\ NoNewTickets
  <2>1. PICK plan : plan = <<a, b, d>> /\ Use(c, i, word, plan)
    BY <1>3
  <2>2. QED BY <2>1, UseNone
<1>4. QED BY <1>1, <1>2, <1>3 DEF UseAny, ResetPassword, ChangePassword, DeactivateAccount,
                                  ReactivateAccount, DeleteAccount, LogIn

LEMMA AskOfStaffNone ==
  ASSUME Inv, NEW c \in Clerks, AskOfStaff(c)
  PROVE  NoNewCodes /\ NoNewTickets
<1>1. PICK request, new : Serve(c, request, new) /\ new.todo # <<"issue">>
  <2>1. ASSUME NEW by \in People, NEW e \in Emails, NEW word \in Passwords,
               NEW role \in Roles \cup {Nobody}, AddStaff(c, by, e, word, role)
        PROVE  \E request, new : Serve(c, request, new) /\ new.todo # <<"issue">>
    <3> DEFINE new == [Idle EXCEPT !.email = e, !.word = word, !.role = role,
                                   !.todo = <<"create", "bind">>]
    <3>1. new.todo = <<"create", "bind">> /\ Serve(c, "hire", new)
      BY <2>1, PlanOf DEF AddStaff
    <3> HIDE DEF new
    <3>2. QED BY <3>1
  <2>2. ASSUME NEW u \in People, NEW e \in Emails, NEW role \in Roles \cup {Nobody},
               Edit(c, u, e, role)
        PROVE  \E request, new : Serve(c, request, new) /\ new.todo # <<"issue">>
    <3> DEFINE plan == IF role = Nobody THEN <<"save">> ELSE <<"save", "bind">>
               new == [Idle EXCEPT !.user = u, !.row = users[u], !.email = e, !.role = role,
                                   !.todo = plan]
    <3>1. plan # <<"issue">> /\ Serve(c, "edit", new)
      BY <2>2 DEF Edit
    <3> HIDE DEF plan
    <3>2. new.todo = plan
      BY PlanOf
    <3> HIDE DEF new
    <3>3. QED BY <3>1, <3>2
  <2>3. ASSUME NEW u \in People, NEW by \in People, AskRemoval(c, by, u)
        PROVE  \E request, new : Serve(c, request, new) /\ new.todo # <<"issue">>
    <3> DEFINE new == [Idle EXCEPT !.user = u, !.todo = <<"remove">>]
    <3>1. new.todo = <<"remove">> /\ Serve(c, "remove", new)
      BY <2>3, PlanOf DEF AskRemoval
    <3> HIDE DEF new
    <3>2. QED BY <3>1
  <2>4. ASSUME NEW role \in Roles, AskDrop(c, role)
        PROVE  \E request, new : Serve(c, request, new) /\ new.todo # <<"issue">>
    <3> DEFINE new == [Idle EXCEPT !.role = role, !.todo = <<"drop">>]
    <3>1. new.todo = <<"drop">> /\ Serve(c, "drop", new)
      BY <2>4, PlanOf DEF AskDrop
    <3> HIDE DEF new
    <3>2. QED BY <3>1
  <2>5. QED BY <2>1, <2>2, <2>3, <2>4 DEF AskOfStaff
<1>2. QED BY <1>1, ServeNone

\* The steps of a request but those that use codes up and issue them.
LEMMA StepNone ==
  ASSUME Inv, NEW c \in Clerks, Step(c), ~Supersede(c), ~Issue(c)
  PROVE  NoNewCodes /\ NoNewTickets
<1>1. CASE Fail(c)
  BY <1>1, FailNone
<1>2. CASE ~Fail(c)
  <2>1. CASE Mark(c)
    <3>1. /\ codes' = [codes EXCEPT ![job[c].code].state = "used"] /\ Continue(c)
          /\ At(c, "mark")
      BY <1>2, <2>1 DEF Mark
    <3>2. codes = [i \in DOMAIN codes |-> codes[i]]
      BY DEF Inv, CodesFit
    <3>3. EndCodes({job[c].code}, "used")
      BY <3>1, <3>2 DEF EndCodes
    <3>4. QED BY <3>1, <3>3, EndCodesNone, ContinueNone
  <2>2. CASE Create(c)
    <3>1. PICK u \in People :
            /\ job' = [job EXCEPT ![c].todo = Tail(@), ![c].user = u] /\ UNCHANGED codes
            /\ At(c, "create")
      BY <1>2, <2>2 DEF Create
    <3> DEFINE new == [job[c] EXCEPT !.todo = Tail(job[c].todo), !.user = u]
    <3>2. job' = [job EXCEPT ![c] = new]
      BY <3>1 DEF Inv, JobsFit
    <3>3. new.todo = Tail(job[c].todo) /\ new.kind = job[c].kind
      BY JobTyped DEF JobState
    <3> HIDE DEF new
    <3>4. QED BY <3>1, <3>2, <3>3, TailNone, OtherJobNone, SameCodesNone
  <2>3. CASE SavePassword(c) \/ SaveStatus(c) \/ Save(c) \/ Bind(c) \/ Drop(c)
    <3>1. PICK step : At(c, step) /\ step # "supersede" /\ Continue(c) /\ UNCHANGED codes
      BY <1>2, <2>3 DEF SavePassword, SaveStatus, Save, Bind, Drop
    <3>2. QED BY <3>1, ContinueNone, SameCodesNone
  <2>4. CASE ReadOrders(c)
    <3> DEFINE read == job[c].user \in ordered
               new == [job[c] EXCEPT !.todo = Tail(job[c].todo), !.orders = read]
    <3>1. job' = [job EXCEPT ![c] = new] /\ UNCHANGED codes /\ At(c, "orders")
      BY <2>4 DEF ReadOrders, Inv, JobsFit
    <3>2. new.todo = Tail(job[c].todo) /\ new.kind = job[c].kind
      BY JobTyped DEF JobState
    <3> HIDE DEF new
    <3>3. QED BY <3>1, <3>2, TailNone, OtherJobNone, SameCodesNone
  <2>5. CASE Erase(c) \/ Remove(c)
    <3>1. PICK step, kinds, u : /\ At(c, step) /\ step # "supersede" /\ Continue(c)
                                /\ codes' = Purged(kinds, u)
      BY <1>2, <2>5 DEF Erase, Remove, DeleteRow, Anonymise
    <3>2. QED BY <3>1, ContinueNone, PurgedNone
  <2>6. QED BY <1>2, <2>1, <2>2, <2>3, <2>4, <2>5 DEF Step, Die
<1>3. QED BY <1>1, <1>2

\* The older codes are used up: whoever overlaps may issue one more each.
LEMMA SupersedeFew ==
  ASSUME Inv, Few, NEW c \in Clerks, Supersede(c)
  PROVE  Few'
<1>1. EndCodes(Live(job[c].kind, job[c].user), "used") /\ Continue(c)
  BY DEF Supersede, EndCodes
<1>2. NoNewCodes
  BY <1>1, EndCodesNone
<1>3. ASSUME NEW d \in Clerks
      PROVE  \/ job'[d] \in {job[d], Idle}
             \/ d = c /\ job'[d].kind = job[c].kind /\ job'[d].user = job[c].user
  <2>1. CASE d # c
    BY <1>1, <2>1 DEF Continue, Inv, JobsFit
  <2>2. CASE d = c
    <3> DEFINE new == [job[c] EXCEPT !.todo = Tail(job[c].todo)]
    <3>1. job'[d] \in {Idle, new}
      BY <1>1, <2>2 DEF Continue, Inv, JobsFit
    <3>2. new.kind = job[c].kind /\ new.user = job[c].user
      BY JobTyped DEF JobState
    <3> HIDE DEF new
    <3>3. QED BY <2>2, <3>1, <3>2
  <2>3. QED BY <2>1, <2>2
<1>4. ASSUME NEW u \in People, NEW kind \in Superseding PROVE FewOf(kind, u)'
  <2>1. CASE kind = job[c].kind /\ u = job[c].user
    <3>1. Live(kind, u)' = {}
      <4>1. SUFFICES ASSUME NEW i \in DOMAIN codes', codes'[i].kind = kind, codes'[i].of = u,
                            codes'[i].state = "live"
                     PROVE  FALSE
        BY DEF Live
      <4>2. i \in Live(kind, u)
        BY <1>2, <4>1 DEF NoNewCodes, Live
      <4>3. codes[i] \in Code /\ codes'[i] = [codes[i] EXCEPT !.state = "used"]
        BY <1>1, <2>1, <4>2, CodeTyped DEF EndCodes, Live
      <4>4. QED BY <4>1, <4>3 DEF Code
    <3>2. Tickets(kind, u)' \subseteq Clerks
      BY DEF Tickets
    <3>3. PICK T \in {Tickets(kind, u)'} : T \subseteq Clerks
      BY <3>2
    <3>4. IsFiniteSet(T) /\ Cardinality(T) <= Cardinality(Clerks)
      BY <3>3, ClerksAssumption, FS_Subset
    <3>5. Cardinality(T) \in Nat /\ Cardinality(Clerks) \in Nat /\ Cardinality({}) = 0
      BY <3>4, ClerksAssumption, FS_CardinalityType, FS_EmptySet
    <3>6. 0 + Cardinality(T) <= Cardinality(Clerks)
      BY <3>4, <3>5
    <3>7. QED BY <3>1, <3>3, <3>5, <3>6 DEF FewOf
  <2>2. CASE ~(kind = job[c].kind /\ u = job[c].user)
    <3>1. ASSUME NEW d \in Clerks, d \in Tickets(kind, u)' PROVE d \in Tickets(kind, u)
      <4>1. job'[d].kind = kind /\ job'[d].user = u /\ job'[d].todo = <<"issue">>
        BY <3>1 DEF Tickets
      <4>2. job'[d] = job[d]
        BY <1>3, <2>2, <4>1, IdleFits, EmptyPlan
      <4>3. QED BY <4>1, <4>2 DEF Tickets
    <3>2. Tickets(kind, u)' \subseteq Tickets(kind, u)
      BY <3>1 DEF Tickets
    <3>3. FewOf(kind, u)
      BY DEF Few
    <3>4. QED BY <1>2, <3>2, <3>3, FewerLive, FewOfStays
  <2>3. QED BY <2>1, <2>2
<1>5. QED BY <1>4 DEF Few

\* A thread gives its ticket for a code in force.
LEMMA IssueFew ==
  ASSUME Inv, Few, NEW c \in Clerks, Issue(c)
  PROVE  Few'
<1>1. At(c, "issue") /\ Continue(c)
  BY DEF Issue
<1>2. NoNewTickets
  BY <1>1, ContinueNone
<1>3. CASE UNCHANGED codes
  BY <1>2, <1>3, SameCodesNone, FewStays
<1>4. CASE ~UNCHANGED codes
  <2> DEFINE of == IF job[c].kind = "register" THEN job[c].email ELSE job[c].user
             new == [kind |-> job[c].kind, of |-> of, state |-> "live"]
             n == Len(codes) + 1
  <2>1. codes' = Append(codes, new)
    BY <1>4 DEF Issue
  <2>2. new.kind = job[c].kind /\ new.of = of
    OBVIOUS
  <2>3. codes \in Seq(Code) /\ Len(codes) \in Nat /\ DOMAIN codes = 1..Len(codes)
    BY DEF Inv, CodesFit
  <2> HIDE DEF new
  <2>4. /\ DOMAIN codes' = DOMAIN codes \cup {n} /\ n \notin DOMAIN codes
        /\ codes'[n] = new /\ \A i \in DOMAIN codes : codes'[i] = codes[i]
    <3>1. Len(codes') = n /\ DOMAIN codes' = 1..n
      BY <2>1, <2>3
    <3>2. codes'[n] = new /\ \A i \in DOMAIN codes : codes'[i] = codes[i]
      BY <2>1, <2>3
    <3>3. QED BY <2>3, <3>1, <3>2
  <2> HIDE DEF n
  <2>5. ASSUME NEW u \in People, NEW kind \in Superseding PROVE FewOf(kind, u)'
    <3>1. FewOf(kind, u)
      BY DEF Few
    <3>2. Tickets(kind, u)' \subseteq Tickets(kind, u)
      BY <1>2, FewerTickets
    <3>3. CASE ~(kind = job[c].kind /\ u = of)
      <4>1. Live(kind, u)' \subseteq Live(kind, u)
        BY <2>2, <2>4, <3>3 DEF Live
      <4>2. QED BY <3>1, <3>2, <4>1, FewOfStays
    <3>4. CASE kind = job[c].kind /\ u = of
      <4>1. u = job[c].user /\ job[c].kind \in Superseding
        BY <3>4 DEF Superseding
      <4>2. job[c].todo = <<"issue">>
        <5>1. job[c].todo \in {<<"issue">>, <<"supersede", "issue">>}
          BY <1>1, <4>1, JobTyped, AtHas DEF JobFits
        <5>2. Head(job[c].todo) = "issue"
          BY <1>1 DEF At
        <5>3. QED BY <5>1, <5>2
      <4>3. c \in Tickets(kind, u)
        BY <3>4, <4>1, <4>2 DEF Tickets
      <4>4. job'[c].todo = <<>>
        <5>1. job'[c] = Idle
          BY <1>1, <4>2 DEF Continue, Inv, JobsFit
        <5>2. QED BY <5>1, IdleFits
      <4>5. c \notin Tickets(kind, u)'
        BY <4>4, EmptyPlan DEF Tickets
      <4>6. Live(kind, u)' \subseteq Live(kind, u) \cup {n}
        BY <2>4 DEF Live
      <4> DEFINE L == Live(kind, u)  T == Tickets(kind, u)
      <4>7. /\ IsFiniteSet(L) /\ IsFiniteSet(T) /\ Cardinality(L) \in Nat
            /\ Cardinality(T) \in Nat /\ Cardinality(Clerks) \in Nat
            /\ Cardinality(L) + Cardinality(T) <= Cardinality(Clerks)
            /\ n \notin L /\ c \in T
        BY <2>4, <3>1, <4>3, LiveFinite DEF FewOf, Live
      <4>8. PICK L1 \in {Live(kind, u)'}, T1 \in {Tickets(kind, u)'} :
              L1 \subseteq L \cup {n} /\ T1 \subseteq T \ {c}
        BY <3>2, <4>5, <4>6
      <4> HIDE DEF L, T
      <4>9. /\ IsFiniteSet(L \cup {n}) /\ Cardinality(L \cup {n}) = Cardinality(L) + 1
            /\ IsFiniteSet(T \ {c}) /\ Cardinality(T \ {c}) = Cardinality(T) - 1
        BY <4>7, FS_AddElement, FS_RemoveElement
      <4>10. /\ IsFiniteSet(L1) /\ Cardinality(L1) <= Cardinality(L \cup {n})
             /\ IsFiniteSet(T1) /\ Cardinality(T1) <= Cardinality(T \ {c})
        BY <4>8, <4>9, FS_Subset
      <4>11. Cardinality(L1) \in Nat /\ Cardinality(T1) \in Nat
        BY <4>10, FS_CardinalityType
      <4>12. Cardinality(L1) + Cardinality(T1) <= Cardinality(Clerks)
        BY <4>7, <4>9, <4>10, <4>11
      <4>13. QED BY <4>8, <4>12 DEF FewOf
    <3>5. QED BY <3>3, <3>4
  <2>6. QED BY <2>5 DEF Few
<1>5. QED BY <1>3, <1>4

LEMMA OtherNone ==
  ASSUME Inv, UNCHANGED job, NoNewCodes
  PROVE  NoNewCodes /\ NoNewTickets
BY DEF NoNewTickets

LEMMA NextFew == Inv /\ Few /\ [AccountsNext]_accountVars => Few'
<1> SUFFICES ASSUME Inv, Few, [AccountsNext]_accountVars PROVE Few'
  OBVIOUS
<1>1. CASE UNCHANGED accountVars
  BY <1>1, SameCodesNone, OtherNone, FewStays DEF accountVars
<1>2. ASSUME NEW c \in Clerks,
             \/ \E e \in Emails : AskToRegister(c, e)
             \/ \E u \in People : AskAny(c, u)
             \/ \E i \in DOMAIN codes : UseAny(c, i)
             \/ AskOfStaff(c)
      PROVE  Few'
  BY <1>2, AskToRegisterNone, AskNone, UseAnyNone, AskOfStaffNone, FewStays
<1>3. ASSUME NEW c \in Clerks, Step(c) PROVE Few'
  BY <1>3, SupersedeFew, IssueFew, StepNone, FewStays
<1>4. ASSUME NEW u \in People,
             \/ \E on \in BOOLEAN : SetCustomerStatus(u, on)
             \/ \E by \in People : DeactivateStaff(by, u) \/ ReactivateStaff(by, u)
             \/ Earn(u) \/ PlaceOrder(u) \/ AddAddress(u)
      PROVE  Few'
  <2>1. UNCHANGED <<codes, job>>
    BY <1>4 DEF SetCustomerStatus, DeactivateStaff, ReactivateStaff, SetActive, Earn,
                PlaceOrder, AddAddress
  <2>2. QED BY <2>1, SameCodesNone, OtherNone, FewStays
<1>5. ASSUME NEW i \in DOMAIN codes, Expire(i) PROVE Few'
  <2>1. codes' = [codes EXCEPT ![i].state = "expired"] /\ UNCHANGED job
    BY <1>5 DEF Expire
  <2>2. codes = [k \in DOMAIN codes |-> codes[k]]
    BY DEF Inv, CodesFit
  <2>3. EndCodes({i}, "expired")
    BY <2>1, <2>2 DEF EndCodes
  <2>4. QED BY <2>1, <2>3, EndCodesNone, OtherNone, FewStays
<1>6. CASE Purge
  <2>1. PICK S \in SUBSET {i \in DOMAIN codes : codes[i].state = "used"} :
          codes' = [i \in DOMAIN codes |->
                      IF i \in S \/ codes[i].state = "expired"
                      THEN [codes[i] EXCEPT !.state = "purged"] ELSE codes[i]]
    BY <1>6 DEF Purge
  <2>2. EndCodes(S \cup {i \in DOMAIN codes : codes[i].state = "expired"}, "purged")
    BY <2>1 DEF EndCodes
  <2>3. UNCHANGED job
    BY <1>6 DEF Purge
  <2>4. QED BY <2>2, <2>3, EndCodesNone, OtherNone, FewStays
<1>7. QED BY <1>1, <1>2, <1>3, <1>4, <1>5, <1>6 DEF AccountsNext

LEMMA InitFew == AccountsInit => Few
<1> SUFFICES ASSUME AccountsInit, NEW u \in People, NEW kind \in Superseding
             PROVE  FewOf(kind, u)
  BY DEF Few
<1>1. codes = <<>> /\ \A c \in Clerks : job[c] = Idle
  BY DEF AccountsInit
<1>2. Live(kind, u) = {} /\ Tickets(kind, u) = {}
  <2>1. DOMAIN codes = {}
    BY <1>1
  <2>2. \A c \in Clerks : job[c].todo # <<"issue">>
    BY <1>1, IdleFits, EmptyPlan
  <2>3. QED BY <2>1, <2>2 DEF Live, Tickets
<1>3. Cardinality({}) = 0 /\ Cardinality(Clerks) \in Nat
  BY ClerksAssumption, FS_EmptySet, FS_CardinalityType
<1>4. QED BY <1>2, <1>3 DEF FewOf

\* Of a kind of which a new code replaces the older ones, an account never has more codes
\* in force than there are threads, however requests for codes, their uses, the purge and
\* deletions interleave.
THEOREM FewCodesInForce == Spec => []FewLiveCodes
<1>1. Inv /\ Few => FewLiveCodes
  <2> SUFFICES ASSUME Inv, Few, NEW u \in People, NEW kind \in Superseding
               PROVE  Cardinality(Live(kind, u)) <= Cardinality(Clerks)
    BY DEF FewLiveCodes
  <2>1. Cardinality(Live(kind, u)) + Cardinality(Tickets(kind, u)) <= Cardinality(Clerks)
    BY DEF Few, FewOf
  <2>2. QED BY <2>1, LiveFinite
<1>2. QED BY <1>1, InitFew, NextFew, AlwaysInv, PTL DEF Spec
=============================================================================
