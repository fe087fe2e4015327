------------------------- MODULE AdminAccounts_proofs -------------------------
(* Proofs about AdminAccounts, for every finite set of accounts. *)
EXTENDS AdminAccounts, FiniteSetTheorems, TLAPS

LEMMA InitIInv == Init => IInv
  <1>1. SUFFICES ASSUME Init PROVE IInv
    OBVIOUS
  <1>2. PICK first \in AdminIds, email \in Emails :
          admins = [a \in AdminIds |-> IF a = first THEN email ELSE Unused]
    BY <1>1 DEF Init
  <1>3. Present = {first}
    BY <1>2, EmailsAssumption DEF Present
  <1>4. TypeOK
    BY <1>1, <1>2 DEF Init, TypeOK, Requests, Idle
  <1>5. DeletedSignedOut
    BY <1>1 DEF Init, DeletedSignedOut, NoSession, Unused
  <1> QED
    BY <1>3, <1>4, <1>5 DEF IInv, NeverWithoutAdmin, EmailsDistinct

(* A step that leaves the accounts and the sessions alone. *)
LEMMA OnlyRequest ==
  ASSUME IInv, NEW w \in Workers, NEW r \in Requests,
         req' = [req EXCEPT ![w] = r], UNCHANGED <<admins, sessions>>
  PROVE  IInv'
  BY DEF IInv, TypeOK, NeverWithoutAdmin, EmailsDistinct, DeletedSignedOut, Present

(* An account whose address changes to one that was free, or that is new. *)
LEMMA AddressTaken ==
  ASSUME IInv, NEW a \in AdminIds, NEW email \in Emails, EmailFree(email, a),
         admins' = [admins EXCEPT ![a] = email]
  PROVE  /\ admins' \in [AdminIds -> Emails \cup {Unused, Deleted}]
         /\ Present' = Present \cup {a}
         /\ NeverWithoutAdmin'
         /\ EmailsDistinct'
  <1>1. admins' \in [AdminIds -> Emails \cup {Unused, Deleted}]
    BY DEF IInv, TypeOK
  <1>2. Present' = Present \cup {a}
    BY DEF Present, IInv, TypeOK
  <1>3. EmailsDistinct'
    BY <1>2 DEF EmailsDistinct, EmailFree, IInv, TypeOK, Present
  <1> QED
    BY <1>1, <1>2, <1>3 DEF NeverWithoutAdmin

LEMMA NextIInv == IInv /\ [Next]_vars => IInv'
  <1> SUFFICES ASSUME IInv, [Next]_vars PROVE IInv'
    OBVIOUS
  <1> USE DEF Done
  <1>1. ASSUME NEW w \in Workers, NEW a \in AdminIds, Login(w, a) PROVE IInv'
    BY <1>1, OnlyRequest DEF Login, Requests
  <1>2. ASSUME NEW w \in Workers, IssueTokenPair(w) PROVE IInv'
    <2>1. req[w] \in [at : {"session"}, admin : AdminIds] /\ Idle \in Requests
      BY <1>2 DEF IssueTokenPair, IInv, TypeOK, Requests, Idle
    <2>2. CASE req[w].admin \in Present
      <3>1. PICK s \in SessionIds :
              sessions' = [sessions EXCEPT ![s] =
                [state |-> "live", admin |-> req[w].admin]]
        BY <1>2, <2>2 DEF IssueTokenPair
      <3>2. TypeOK'
        BY <1>2, <2>1, <3>1 DEF IssueTokenPair, IInv, TypeOK
      <3>3. DeletedSignedOut'
        BY <1>2, <2>1, <2>2, <3>1
        DEF IssueTokenPair, IInv, TypeOK, DeletedSignedOut, Present
      <3> QED
        BY <1>2, <3>2, <3>3
        DEF IssueTokenPair, IInv, NeverWithoutAdmin, EmailsDistinct, Present
    <2>3. CASE req[w].admin \notin Present
      BY <1>2, <2>1, <2>3, OnlyRequest DEF IssueTokenPair
    <2> QED
      BY <2>2, <2>3
  <1>3. ASSUME NEW w \in Workers, NEW s \in SessionIds, NEW email \in Emails,
               Store(w, s, email)
        PROVE  IInv'
    BY <1>3, OnlyRequest DEF Store, Requests
  <1>4. ASSUME NEW w \in Workers, NEW email \in Emails, CreateAdminScript(w, email)
        PROVE  IInv'
    BY <1>4, OnlyRequest DEF CreateAdminScript, Requests
  <1>5. ASSUME NEW w \in Workers, Create(w) PROVE IInv'
    <2>1. req[w] \in [at : {"create"}, email : Emails] /\ Idle \in Requests
      BY <1>5 DEF Create, IInv, TypeOK, Requests, Idle
    <2>2. PICK a \in AdminIds :
            /\ admins[a] = Unused
            /\ IF EmailFree(req[w].email, a)
                 THEN admins' = [admins EXCEPT ![a] = req[w].email]
                 ELSE UNCHANGED admins
      BY <1>5 DEF Create
    <2>3. CASE EmailFree(req[w].email, a)
      <3>1. Present' = Present \cup {a} /\ NeverWithoutAdmin' /\ EmailsDistinct'
            /\ admins' \in [AdminIds -> Emails \cup {Unused, Deleted}]
        BY <2>1, <2>2, <2>3, AddressTaken
      <3>2. TypeOK' /\ DeletedSignedOut'
        BY <1>5, <2>1, <3>1 DEF Create, IInv, TypeOK, DeletedSignedOut
      <3> QED
        BY <3>1, <3>2 DEF IInv
    <2>4. CASE ~EmailFree(req[w].email, a)
      BY <1>5, <2>1, <2>2, <2>4, OnlyRequest DEF Create
    <2> QED
      BY <2>3, <2>4
  <1>6. ASSUME NEW w \in Workers, NEW s \in SessionIds, NEW a \in AdminIds,
               NEW email \in Emails \cup {Keep}, NEW password \in BOOLEAN,
               RequestUpdate(w, s, a, email, password)
        PROVE  IInv'
    BY <1>6, OnlyRequest DEF RequestUpdate, Requests
  <1>7. ASSUME NEW w \in Workers, Update(w) PROVE IInv'
    <2> DEFINE a == req[w].target
               email == IF req[w].email = Keep THEN admins[a] ELSE req[w].email
    <2>1. /\ req[w] \in [at : {"update"}, target : AdminIds,
                         email : Emails \cup {Keep}, password : BOOLEAN]
          /\ Idle \in Requests
      BY <1>7 DEF Update, IInv, TypeOK, Requests, Idle
    <2>2. CASE a \in Present /\ EmailFree(email, a)
      <3>1. a \in AdminIds /\ email \in Emails
            /\ admins' = [admins EXCEPT ![a] = email]
        BY <1>7, <2>1, <2>2 DEF Update, Present
      <3>2. Present' = Present /\ NeverWithoutAdmin' /\ EmailsDistinct'
            /\ admins' \in [AdminIds -> Emails \cup {Unused, Deleted}]
        <4> HIDE DEF a, email
        <4>1. /\ Present' = Present \cup {a} /\ NeverWithoutAdmin' /\ EmailsDistinct'
              /\ admins' \in [AdminIds -> Emails \cup {Unused, Deleted}]
          BY <2>2, <3>1, AddressTaken
        <4> QED
          BY <2>2, <4>1
      <3>3. RevokeSessions(a) \/ UNCHANGED sessions
        BY <1>7, <2>2 DEF Update
      <3>4. TypeOK'
        BY <1>7, <2>1, <3>2, <3>3
        DEF Update, IInv, TypeOK, RevokeSessions, NoSession, Unused
      <3>5. DeletedSignedOut'
        BY <3>2, <3>3
        DEF IInv, TypeOK, DeletedSignedOut, RevokeSessions, NoSession, Unused
      <3> QED
        BY <3>2, <3>4, <3>5 DEF IInv
    <2>3. CASE ~(a \in Present /\ EmailFree(email, a))
      BY <1>7, <2>1, <2>3, OnlyRequest DEF Update
    <2> QED
      BY <2>2, <2>3
  <1>8. ASSUME NEW w \in Workers, NEW s \in SessionIds, NEW a \in AdminIds,
               Destroy(w, s, a)
        PROVE  IInv'
    <2>1. sessions[s].admin \in AdminIds
      BY <1>8 DEF Destroy, SignedIn, Present
    <2> QED
      BY <1>8, <2>1, OnlyRequest DEF Destroy, Requests
  <1>9. ASSUME NEW w \in Workers, DeleteGuarded(w) PROVE IInv'
    <2> DEFINE a == req[w].target
    <2>1. /\ req[w] \in [at : {"delete"}, actor : AdminIds, target : AdminIds]
          /\ Idle \in Requests
      BY <1>9 DEF DeleteGuarded, IInv, TypeOK, Requests, Idle
    <2>2. CASE a \in Present /\ a # req[w].actor /\ Cardinality(Present) > 1
      <3>1. admins' = [admins EXCEPT ![a] = Deleted] /\ Cascade(a)
        BY <1>9, <2>2 DEF DeleteGuarded
      <3>2. Present' = Present \ {a}
        BY <2>1, <3>1, EmailsAssumption DEF Present, IInv, TypeOK
      <3>3. NeverWithoutAdmin'
        <4>1. Cardinality({a}) = 1
          BY FS_Singleton
        <4>2. Present # {a}
          BY <2>2, <4>1
        <4> QED
          BY <3>2, <4>2, <2>2 DEF NeverWithoutAdmin
      <3>4. EmailsDistinct'
        BY <2>1, <3>1, <3>2 DEF EmailsDistinct, IInv, TypeOK, Present
      <3>5. TypeOK'
        BY <1>9, <2>1, <3>1
        DEF DeleteGuarded, IInv, TypeOK, Cascade, NoSession, Unused, Deleted, Present
      <3>6. DeletedSignedOut'
        BY <3>1, <3>2 DEF Cascade, DeletedSignedOut, IInv, TypeOK, NoSession,
                          Unused, Deleted
      <3> QED
        BY <3>3, <3>4, <3>5, <3>6 DEF IInv
    <2>3. CASE ~(a \in Present /\ a # req[w].actor /\ Cardinality(Present) > 1)
      BY <1>9, <2>1, <2>3, OnlyRequest DEF DeleteGuarded
    <2> QED
      BY <2>2, <2>3
  <1>10. ASSUME NEW w \in Workers, RequestDies(w) PROVE IInv'
    BY <1>10, OnlyRequest DEF RequestDies, Requests, Idle
  <1>11. ASSUME NEW s \in SessionIds, SessionExpires(s) PROVE IInv'
    BY <1>11 DEF SessionExpires, IInv, TypeOK, NeverWithoutAdmin, EmailsDistinct,
                 DeletedSignedOut, Present, NoSession, Unused
  <1>12. CASE UNCHANGED vars
    BY <1>12 DEF vars, IInv, TypeOK, NeverWithoutAdmin, EmailsDistinct,
                 DeletedSignedOut, Present
  <1> QED
    BY <1>1, <1>2, <1>3, <1>4, <1>5, <1>6, <1>7, <1>8, <1>9, <1>10, <1>11, <1>12
    DEF Next

(* The inductive invariant of the staff accounts.  Its parts are inductive *)
(* together with the types only: who is present decides who stays.         *)
THEOREM Invariance == Spec => []IInv
  BY InitIInv, NextIInv, PTL DEF Spec

(* deleteGuarded: any number of admins deleting each other leaves one. *)
THEOREM AdminRemains == Spec => []NeverWithoutAdmin
  <1>1. IInv => NeverWithoutAdmin
    BY DEF IInv
  <1> QED
    BY <1>1, Invariance, PTL

(* The unique key settles what emailExists, read too early, cannot. *)
THEOREM AddressesDiffer == Spec => []EmailsDistinct
  <1>1. IInv => EmailsDistinct
    BY DEF IInv
  <1> QED
    BY <1>1, Invariance, PTL

(* The cascade and the foreign key: no live session without its admin. *)
THEOREM SessionsOwned == Spec => []DeletedSignedOut
  <1>1. IInv => DeletedSignedOut
    BY DEF IInv
  <1> QED
    BY <1>1, Invariance, PTL

================================================================================
