--------------------------- MODULE SchemaChainProofs ---------------------------
(***************************************************************************)
(* Machine-checked proofs about SchemaChain: at every point of a run, cut  *)
(* short or not, the schema that is committed is the one of the revision   *)
(* it is stamped with; the one of the last revision is the ORM's; and each *)
(* release goes on inserting into the schemas of later revisions.          *)
(***************************************************************************)
EXTENDS SchemaChain, WellFoundedInduction, TLAPS

-----------------------------------------------------------------------------
(* The recursions of the model                                             *)

\* The induction that the recursions need, by least counterexample.
LEMMA Smallest ==
  ASSUME NEW T \in SUBSET Nat, T # {}
  PROVE  \E n \in T : \A m \in T : n <= m
  <1> DEFINE R == OpToRel(<, Nat)
  <1>1. IsWellFoundedOn(R, Nat)
    BY NatLessThanWellFounded
  <1> HIDE DEF R
  <1>2. PICK n \in T : \A m \in T : ~ (<<m, n>> \in R)
    BY <1>1, WFMin, Zenon
  <1>3. \A m, k \in Nat : <<m, k>> \in R <=> m < k
    BY DEF R, OpToRel
  <1>4. \A m \in T : n <= m
    <2> TAKE m \in T
    <2>1. ~ (m < n) /\ m \in Nat /\ n \in Nat
      BY <1>2, <1>3
    <2> QED
      BY <2>1
  <1> QED
    BY <1>4

\* Induction over the naturals up to N, on the set of those for which a claim holds.
LEMMA Induction ==
  ASSUME NEW N \in Nat, NEW T, 0 \in T, \A k \in 1..N : k - 1 \in T => k \in T
  PROVE  \A k \in 0..N : k \in T
  <1> DEFINE Others == {k \in 0..N : k \notin T}
  <1>1. Others = {}
    <2> SUFFICES ASSUME Others # {}
                 PROVE  FALSE
      OBVIOUS
    <2>1. PICK n \in Others : \A m \in Others : n <= m
      <3>1. Others \in SUBSET Nat
        OBVIOUS
      <3> HIDE DEF Others
      <3> QED
        BY <3>1, Smallest
    <2>2. n \in 1..N /\ n - 1 \in 0..N /\ ~ (n <= n - 1)
      BY <2>1
    <2>3. n - 1 \in T
      BY <2>1, <2>2
    <2> QED
      BY <2>1, <2>2, <2>3
  <1> QED
    BY <1>1

\* The recursion of After unrolls at every position.
LEMMA AfterSteps ==
  ASSUME NEW statements, Len(statements) \in Nat, NEW base
  PROVE  /\ DOMAIN After(statements, base) = 0..Len(statements)
         /\ After(statements, base)[0] = base
         /\ \A k \in 1..Len(statements) :
              After(statements, base)[k]
                = Applied(statements[k], After(statements, base)[k - 1])
  <1> DEFINE N == Len(statements)
             Leaves(f, n) ==
               f = [k \in 0..n |-> IF k = 0 THEN base ELSE Applied(statements[k], f[k - 1])]
             Defined == {n \in 0..N : \E f : Leaves(f, n)}
  <1>1. 0 \in Defined
    <2> DEFINE f == [k \in 0..0 |-> base]
    <2>1. Leaves(f, 0)
      OBVIOUS
    <2> HIDE DEF f
    <2> QED
      BY <2>1
  <1>2. ASSUME NEW n \in 1..N, n - 1 \in Defined
        PROVE  n \in Defined
    <2>1. PICK f : Leaves(f, n - 1)
      BY <1>2
    <2> DEFINE g == [k \in 0..n |-> IF k = 0 THEN base ELSE Applied(statements[k], f[k - 1])]
    <2>2. \A k \in 0..n : k # 0 => k - 1 \in 0..(n - 1)
      OBVIOUS
    <2>3. \A k \in 0..n : k # 0 => g[k - 1] = f[k - 1]
      BY <2>1, <2>2
    <2>4. Leaves(g, n)
      BY <2>3
    <2> HIDE DEF g
    <2> QED
      BY <2>4
  <1>3. \E f : Leaves(f, N)
    <2> HIDE DEF Leaves
    <2>1. \A k \in 0..N : k \in Defined
      <3> HIDE DEF Defined
      <3> QED
        BY <1>1, <1>2, Induction
    <2> QED
      BY <2>1
  <1> DEFINE A == After(statements, base)
  <1>4. A = CHOOSE f : Leaves(f, N)
    BY DEF After
  <1>5. Leaves(A, N)
    <2> HIDE DEF Leaves, A
    <2> QED
      BY <1>3, <1>4
  <1> QED
    BY <1>5

\* The schema of a revision is what its upgrade() makes of the one before.
LEMMA SchemaSteps ==
  /\ DOMAIN SchemaAt = Revisions
  /\ SchemaAt[0] = NoTables
  /\ \A r \in 1..Latest : SchemaAt[r] = After(Upgrades[r], SchemaAt[r - 1])[Len(Upgrades[r])]
  <1> DEFINE Reaches(f, n) ==
               f = [r \in 0..n |->
                      IF r = 0 THEN NoTables ELSE After(Upgrades[r], f[r - 1])[Len(Upgrades[r])]]
             Defined == {n \in Revisions : \E f : Reaches(f, n)}
  <1>1. Latest \in Nat
    BY DEF Latest, Upgrades
  <1>2. 0 \in Defined
    <2> DEFINE f == [k \in 0..0 |-> NoTables]
    <2>1. Reaches(f, 0)
      OBVIOUS
    <2> HIDE DEF f
    <2> QED
      BY <1>1, <2>1 DEF Revisions
  <1>3. ASSUME NEW n \in 1..Latest, n - 1 \in Defined
        PROVE  n \in Defined
    <2>1. PICK f : Reaches(f, n - 1)
      BY <1>3
    <2> DEFINE g == [r \in 0..n |->
                       IF r = 0 THEN NoTables ELSE After(Upgrades[r], f[r - 1])[Len(Upgrades[r])]]
    <2>2. \A k \in 0..n : k # 0 => k - 1 \in 0..(n - 1)
      BY <1>1
    <2>3. \A k \in 0..n : k # 0 => g[k - 1] = f[k - 1]
      BY <2>1, <2>2
    <2>4. Reaches(g, n)
      BY <2>3
    <2>5. n \in Revisions
      BY <1>1 DEF Revisions
    <2> HIDE DEF g
    <2> QED
      BY <2>4, <2>5
  <1>4. \E f : Reaches(f, Latest)
    <2> HIDE DEF Reaches
    <2>1. \A k \in 0..Latest : k \in Defined
      <3> HIDE DEF Defined
      <3> QED
        BY <1>1, <1>2, <1>3, Induction
    <2> QED
      BY <1>1, <2>1
  <1>5. SchemaAt = CHOOSE f : Reaches(f, Latest)
    BY DEF SchemaAt, Revisions
  <1>6. Reaches(SchemaAt, Latest)
    <2> HIDE DEF Reaches
    <2> QED
      BY <1>4, <1>5
  <1> QED
    BY <1>1, <1>6 DEF Revisions

-----------------------------------------------------------------------------
(* What a list of creations and a list of drops leaves                     *)

\* Tables that are created one after the other are all there in the end, each as created.
LEMMA CreatedAll ==
  ASSUME NEW statements, Len(statements) \in Nat,
         \A i \in 1..Len(statements) : statements[i].op = "create_table",
         \A i, j \in 1..Len(statements) : statements[i].table = statements[j].table => i = j
  PROVE  LET last == After(statements, NoTables)[Len(statements)]
         IN  /\ DOMAIN last = {statements[i].table : i \in 1..Len(statements)}
             /\ \A i \in 1..Len(statements) : last[statements[i].table] = statements[i].arg
  <1> DEFINE A == After(statements, NoTables)
             N == Len(statements)
             Made(k) == /\ DOMAIN A[k] = {statements[i].table : i \in 1..k}
                        /\ \A i \in 1..k : A[k][statements[i].table] = statements[i].arg
             T == {k \in 0..N : Made(k)}
  <1>1. /\ A[0] = NoTables
        /\ \A k \in 1..N : A[k] = Applied(statements[k], A[k - 1])
    BY AfterSteps
  <1> HIDE DEF A
  <1>2. 0 \in T
    BY <1>1 DEF NoTables
  <1>3. ASSUME NEW k \in 1..N, k - 1 \in T
        PROVE  k \in T
    <2> DEFINE s == statements[k]
    <2>1. A[k] = [name \in DOMAIN A[k - 1] \cup {s.table} |->
                    IF name \in DOMAIN A[k - 1] THEN A[k - 1][name] ELSE s.arg]
      BY <1>1 DEF Applied
    <2>2. Made(k - 1) /\ k - 1 \in Nat
      BY <1>3
    <2>3. 1..k = 1..(k - 1) \cup {k} /\ 1..k \subseteq 1..N
      OBVIOUS
    <2>4. DOMAIN A[k] = {statements[i].table : i \in 1..k}
      BY <2>1, <2>2, <2>3
    <2>5. s.table \notin DOMAIN A[k - 1]
      BY <2>2, <2>3
    <2>6. A[k][s.table] = s.arg
      BY <2>1, <2>5
    <2>7. \A i \in 1..(k - 1) : A[k][statements[i].table] = statements[i].arg
      BY <2>1, <2>2
    <2> QED
      BY <2>3, <2>4, <2>6, <2>7
  <1>4. \A k \in 0..N : k \in T
    <2> HIDE DEF T
    <2> QED
      BY <1>2, <1>3, Induction
  <1> QED
    BY <1>4 DEF A

\* Dropping tables one after the other leaves the others.
LEMMA DroppedAll ==
  ASSUME NEW statements, Len(statements) \in Nat, NEW base,
         \A i \in 1..Len(statements) : statements[i].op = "drop_table"
  PROVE  DOMAIN After(statements, base)[Len(statements)]
           = DOMAIN base \ {statements[i].table : i \in 1..Len(statements)}
  <1> DEFINE A == After(statements, base)
             N == Len(statements)
             T == {k \in 0..N : DOMAIN A[k] = DOMAIN base \ {statements[i].table : i \in 1..k}}
  <1>1. /\ A[0] = base
        /\ \A k \in 1..N : A[k] = Applied(statements[k], A[k - 1])
    BY AfterSteps
  <1> HIDE DEF A
  <1>2. 0 \in T
    BY <1>1
  <1>3. ASSUME NEW k \in 1..N, k - 1 \in T
        PROVE  k \in T
    <2>1. A[k] = [name \in DOMAIN A[k - 1] \ {statements[k].table} |-> A[k - 1][name]]
      BY <1>1 DEF Applied
    <2>2. 1..k = 1..(k - 1) \cup {k}
      OBVIOUS
    <2> QED
      BY <1>3, <2>1, <2>2
  <1>4. \A k \in 0..N : k \in T
    <2> HIDE DEF T
    <2> QED
      BY <1>2, <1>3, Induction
  <1> QED
    BY <1>4 DEF A

-----------------------------------------------------------------------------
(* The revisions                                                           *)

Phase1Tables ==
  [organizations |-> OrganizationsTable, users |-> UsersTable, audit_log |-> AuditLogTable,
   contacts |-> ContactsTable, email_templates |-> EmailTemplatesTable,
   events |-> EventsTable, groups |-> GroupsTable,
   organization_members |-> OrganizationMembersTable, sessions |-> SessionsTable,
   tags |-> TagsTable, campaigns |-> CampaignsTable, contact_groups |-> ContactGroupsTable,
   contact_tags |-> ContactTagsTable, jobs_ |-> JobsTable,
   template_versions |-> TemplateVersionsTable, email_jobs |-> EmailJobsTable,
   email_engagements |-> EmailEngagementsTable, provider_events |-> ProviderEventsTable]

\* The place of a table among the creations.
Place ==
  [organizations |-> 1, users |-> 2, audit_log |-> 3, contacts |-> 4, email_templates |-> 5,
   events |-> 6, groups |-> 7, organization_members |-> 8, sessions |-> 9, tags |-> 10,
   campaigns |-> 11, contact_groups |-> 12, contact_tags |-> 13, jobs_ |-> 14,
   template_versions |-> 15, email_jobs |-> 16, email_engagements |-> 17,
   provider_events |-> 18]

LEMMA Eighteen ==
  \A i \in 1..18 :
    \/ i = 1 \/ i = 2 \/ i = 3 \/ i = 4 \/ i = 5 \/ i = 6 \/ i = 7 \/ i = 8 \/ i = 9
    \/ i = 10 \/ i = 11 \/ i = 12 \/ i = 13 \/ i = 14 \/ i = 15 \/ i = 16 \/ i = 17 \/ i = 18
  OBVIOUS

\* The first revision creates eighteen tables, each once.
LEMMA Phase1Creations ==
  /\ Len(Phase1Upgrade) = 18
  /\ \A i \in 1..18 :
       /\ Phase1Upgrade[i].op = "create_table"
       /\ Phase1Upgrade[i].table \in DOMAIN Phase1Tables
       /\ Place[Phase1Upgrade[i].table] = i
       /\ Phase1Upgrade[i].arg = Phase1Tables[Phase1Upgrade[i].table]
  /\ \A name \in DOMAIN Phase1Tables :
       Place[name] \in 1..18 /\ Phase1Upgrade[Place[name]].table = name
  <1>1. Len(Phase1Upgrade) = 18
    BY DEF Phase1Upgrade
  <1>2. ASSUME NEW i \in 1..18
        PROVE  /\ Phase1Upgrade[i].op = "create_table"
               /\ Phase1Upgrade[i].table \in DOMAIN Phase1Tables
               /\ Place[Phase1Upgrade[i].table] = i
               /\ Phase1Upgrade[i].arg = Phase1Tables[Phase1Upgrade[i].table]
    BY Eighteen DEF Phase1Upgrade, CreateTable, Statement, Phase1Tables, Place
  <1>3. ASSUME NEW name \in DOMAIN Phase1Tables
        PROVE  Place[name] \in 1..18 /\ Phase1Upgrade[Place[name]].table = name
    BY DEF Phase1Upgrade, CreateTable, Statement, Phase1Tables, Place
  <1> QED
    BY <1>1, <1>2, <1>3

\* The tables of the first revision, and none after its downgrade().
LEMMA Phase1Schema ==
  After(Phase1Upgrade, NoTables)[Len(Phase1Upgrade)] = Phase1Tables
  <1> DEFINE U == Phase1Upgrade
             last == After(U, NoTables)[Len(U)]
  <1>1. /\ Len(U) = 18
        /\ \A i \in 1..18 :
             /\ U[i].op = "create_table"
             /\ U[i].table \in DOMAIN Phase1Tables
             /\ Place[U[i].table] = i
             /\ U[i].arg = Phase1Tables[U[i].table]
        /\ \A name \in DOMAIN Phase1Tables : Place[name] \in 1..18 /\ U[Place[name]].table = name
    BY Phase1Creations
  <1>2. Len(U) \in Nat /\ Len(U) \in 1..Len(U)
    BY <1>1
  <1> HIDE DEF U
  <1>3. \A k \in 1..Len(U) :
          After(U, NoTables)[k] = Applied(U[k], After(U, NoTables)[k - 1])
    BY <1>2, AfterSteps
  <1>4. last = [name \in DOMAIN last |-> last[name]]
    <2>1. last = Applied(U[Len(U)], After(U, NoTables)[Len(U) - 1])
      BY <1>2, <1>3
    <2>2. U[Len(U)].op = "create_table"
      BY <1>1
    <2> HIDE DEF last
    <2> QED
      BY <2>1, <2>2 DEF Applied
  <1>5. /\ DOMAIN last = {U[i].table : i \in 1..18}
        /\ \A i \in 1..18 : last[U[i].table] = U[i].arg
    <2>1. \A i \in 1..Len(U) : U[i].op = "create_table"
      BY <1>1
    <2>2. \A i, j \in 1..Len(U) : U[i].table = U[j].table => i = j
      BY <1>1
    <2>3. /\ DOMAIN last = {U[i].table : i \in 1..Len(U)}
          /\ \A i \in 1..Len(U) : last[U[i].table] = U[i].arg
      BY <1>2, <2>1, <2>2, CreatedAll
    <2> QED
      BY <1>1, <2>3
  <1> HIDE DEF last
  <1>6. DOMAIN last = DOMAIN Phase1Tables
    BY <1>1, <1>5
  <1>7. ASSUME NEW name \in DOMAIN Phase1Tables
        PROVE  last[name] = Phase1Tables[name]
    <2>1. PICK i \in 1..18 : U[i].table = name
      BY <1>1
    <2>2. last[U[i].table] = U[i].arg
      BY <1>5
    <2>3. U[i].arg = Phase1Tables[U[i].table]
      BY <1>1
    <2> QED
      BY <2>1, <2>2, <2>3
  <1>8. Phase1Tables = [name \in DOMAIN Phase1Tables |-> Phase1Tables[name]]
    BY DEF Phase1Tables
  <1>9. last = Phase1Tables
    <2> HIDE DEF Phase1Tables
    <2> QED
      BY <1>4, <1>6, <1>7, <1>8
  <1> QED
    BY <1>9 DEF last, U

LEMMA Phase1Undone ==
  After(Phase1Downgrade, Phase1Tables)[Len(Phase1Downgrade)] = NoTables
  <1> DEFINE D == Phase1Downgrade
             last == After(D, Phase1Tables)[Len(D)]
  <1>1. Len(D) = 18
    BY DEF Phase1Downgrade
  <1>2. \A i \in 1..18 : D[i].op = "drop_table"
    BY Eighteen DEF Phase1Downgrade, DropTable, Statement
  <1>3. \A name \in DOMAIN Phase1Tables :
          19 - Place[name] \in 1..18 /\ D[19 - Place[name]].table = name
    BY DEF Phase1Downgrade, DropTable, Statement, Phase1Tables, Place
  <1>4. Len(D) \in Nat /\ Len(D) \in 1..Len(D)
    BY <1>1
  <1> HIDE DEF D
  <1>5. \A k \in 1..Len(D) :
          After(D, Phase1Tables)[k] = Applied(D[k], After(D, Phase1Tables)[k - 1])
    BY <1>4, AfterSteps
  <1>6. last = [name \in DOMAIN last |-> last[name]]
    BY <1>1, <1>2, <1>4, <1>5 DEF Applied
  <1>7. DOMAIN last = DOMAIN Phase1Tables \ {D[i].table : i \in 1..18}
    <2>1. \A i \in 1..Len(D) : D[i].op = "drop_table"
      BY <1>1, <1>2
    <2>2. DOMAIN last = DOMAIN Phase1Tables \ {D[i].table : i \in 1..Len(D)}
      BY <1>4, <2>1, DroppedAll
    <2> QED
      BY <1>1, <2>2
  <1> HIDE DEF last
  <1>8. DOMAIN last = {}
    BY <1>3, <1>7
  <1>9. last = NoTables
    BY <1>6, <1>8 DEF NoTables
  <1> QED
    BY <1>9 DEF last, D

LEMMA OneStatement ==
  ASSUME NEW s, NEW base
  PROVE  After(<<s>>, base)[Len(<<s>>)] = Applied(s, base)
  <1>1. Len(<<s>>) = 1 /\ <<s>>[1] = s
    OBVIOUS
  <1> QED
    BY <1>1, AfterSteps

LEMMA ThreeStatements ==
  ASSUME NEW r, NEW s, NEW t, NEW base
  PROVE  After(<<r, s, t>>, base)[Len(<<r, s, t>>)] = Applied(t, Applied(s, Applied(r, base)))
  <1> DEFINE list == <<r, s, t>>
  <1>1. Len(list) = 3 /\ list[1] = r /\ list[2] = s /\ list[3] = t
    OBVIOUS
  <1> HIDE DEF list
  <1>2. /\ After(list, base)[0] = base
        /\ After(list, base)[1] = Applied(r, base)
        /\ After(list, base)[2] = Applied(s, After(list, base)[1])
        /\ After(list, base)[3] = Applied(t, After(list, base)[2])
    BY <1>1, AfterSteps
  <1>3. After(list, base)[Len(list)] = Applied(t, Applied(s, Applied(r, base)))
    BY <1>1, <1>2
  <1> QED
    BY <1>3 DEF list

Alters(s) ==
  s.op \notin {"create_table", "script_if_absent", "drop_table", "drop_if_present"}

\* If one statement undoes another on the table they name, it does so on the schema.
LEMMA AlteredUndone ==
  ASSUME NEW s, NEW d, Alters(s), Alters(d), d.table = s.table,
         NEW ts, ts = [name \in DOMAIN ts |-> ts[name]], s.table \in DOMAIN ts,
         Altered(d, Altered(s, ts[s.table])) = ts[s.table]
  PROVE  Applied(d, Applied(s, ts)) = ts
  <1>1. Applied(s, ts) = [ts EXCEPT ![s.table] = Altered(s, ts[s.table])]
    BY DEF Applied, Alters
  <1>2. Applied(d, Applied(s, ts))
          = [Applied(s, ts) EXCEPT ![s.table] = Altered(d, Applied(s, ts)[s.table])]
    BY DEF Applied, Alters
  <1>3. Applied(s, ts)[s.table] = Altered(s, ts[s.table])
    BY <1>1
  <1>4. DOMAIN Applied(d, Applied(s, ts)) = DOMAIN ts
    BY <1>1, <1>2
  <1>5. ASSUME NEW name \in DOMAIN ts
        PROVE  Applied(d, Applied(s, ts))[name] = ts[name]
    BY <1>1, <1>2, <1>3
  <1>6. Applied(d, Applied(s, ts))
          = [name \in DOMAIN ts |-> Applied(d, Applied(s, ts))[name]]
    BY <1>1, <1>2, <1>4
  <1> QED
    BY <1>5, <1>6

\* A record of a table whose columns are spelled out.
Spelled(required, optional, defaulted, unique, refs) ==
  [required |-> required, optional |-> optional, defaulted |-> defaulted,
   unique |-> unique, refs |-> refs]

\* Dropping a column undoes its addition, whether it came with a default or nullable.
LEMMA ColumnDropped ==
  ASSUME NEW required, NEW optional, NEW defaulted, NEW unique, NEW refs, NEW c, NEW n,
         c \notin required, c \notin optional, c \notin defaulted,
         \A key \in unique : c \notin key,
         \A ref \in refs : ref[1] # c,
         NEW tbl, tbl = Spelled(required, optional, defaulted, unique, refs)
  PROVE  /\ Altered(DropColumns(n, {c}), Altered(AddColumns(n, {c}), tbl)) = tbl
         /\ Altered(DropColumns(n, {c}),
                    Altered(Statement("add_defaulted", n, {c}), tbl)) = tbl
  <1> DEFINE t == [required |-> required, optional |-> optional, defaulted |-> defaulted,
                   unique |-> unique, refs |-> refs]
  <1>1. /\ (required \cup {c}) \ {c} = required /\ required \ {c} = required
        /\ (optional \cup {c}) \ {c} = optional /\ optional \ {c} = optional
        /\ (defaulted \cup {c}) \ {c} = defaulted /\ defaulted \ {c} = defaulted
    OBVIOUS
  <1>2. {key \in unique : key \cap {c} = {}} = unique
    OBVIOUS
  <1>3. {ref \in refs : ref[1] \notin {c}} = refs
    OBVIOUS
  <1>4. Altered(AddColumns(n, {c}), t)
          = [required |-> required, optional |-> optional \cup {c}, defaulted |-> defaulted,
             unique |-> unique, refs |-> refs]
    BY DEF Altered, AddColumns, Statement
  <1>5. Altered(Statement("add_defaulted", n, {c}), t)
          = [required |-> required \cup {c}, optional |-> optional,
             defaulted |-> defaulted \cup {c}, unique |-> unique, refs |-> refs]
    BY DEF Altered, Statement, Defaulted
  <1>6. ASSUME NEW u PROVE Altered(DropColumns(n, {c}), u) = Without(u, {c})
    BY DEF Altered, DropColumns, Statement
  <1>7. ASSUME NEW u, DOMAIN u = DOMAIN t, u.unique = unique, u.refs = refs,
               u.required \ {c} = required, u.optional \ {c} = optional,
               u.defaulted \ {c} = defaulted
        PROVE  Without(u, {c}) = t
    <2> DEFINE w == Without(u, {c})
    <2>1. w = [field \in DOMAIN u |-> w[field]]
      BY DEF Without
    <2>2. w.required = u.required \ {c}
      BY <1>7 DEF Without
    <2>3. w.optional = u.optional \ {c}
      BY <1>7 DEF Without
    <2>4. w.defaulted = u.defaulted \ {c}
      BY <1>7 DEF Without
    <2>5. w.unique = {key \in u.unique : key \cap {c} = {}}
      BY <1>7 DEF Without
    <2>6. w.refs = {ref \in u.refs : ref[1] \notin {c}}
      BY <1>7 DEF Without
    <2> HIDE DEF w
    <2>7. w = t
      BY <1>2, <1>3, <1>7, <2>1, <2>2, <2>3, <2>4, <2>5, <2>6
    <2> QED
      BY <2>7 DEF w
  <1>8. Without(Altered(AddColumns(n, {c}), t), {c}) = t
    <2> DEFINE u == Altered(AddColumns(n, {c}), t)
    <2>1. u = [required |-> required, optional |-> optional \cup {c}, defaulted |-> defaulted,
              unique |-> unique, refs |-> refs]
      BY <1>4
    <2> HIDE DEF u
    <2>2. /\ DOMAIN u = DOMAIN t /\ u.unique = unique /\ u.refs = refs
          /\ u.required \ {c} = required /\ u.optional \ {c} = optional
          /\ u.defaulted \ {c} = defaulted
      BY <1>1, <2>1
    <2> HIDE DEF t
    <2>3. Without(u, {c}) = t
      BY <1>7, <2>2
    <2> QED
      BY <2>3 DEF u
  <1>9. Without(Altered(Statement("add_defaulted", n, {c}), t), {c}) = t
    <2> DEFINE u == Altered(Statement("add_defaulted", n, {c}), t)
    <2>1. u = [required |-> required \cup {c}, optional |-> optional,
              defaulted |-> defaulted \cup {c}, unique |-> unique, refs |-> refs]
      BY <1>5
    <2> HIDE DEF u
    <2>2. /\ DOMAIN u = DOMAIN t /\ u.unique = unique /\ u.refs = refs
          /\ u.required \ {c} = required /\ u.optional \ {c} = optional
          /\ u.defaulted \ {c} = defaulted
      BY <1>1, <2>1
    <2> HIDE DEF t
    <2>3. Without(u, {c}) = t
      BY <1>7, <2>2
    <2> QED
      BY <2>3 DEF u
  <1> QED
    BY <1>6, <1>8, <1>9 DEF Spelled

-----------------------------------------------------------------------------
(* The later schemas                                                       *)

CountedEvents == Altered(AttemptsUpgrade[1], ProviderEventsTable)
ArchivableTemplates == Altered(ArchivedUpgrade[1], EmailTemplatesTable)
UniqueGroups == Altered(GroupNameUpgrade[1], GroupsTable)

AttemptsTables == [Phase1Tables EXCEPT !.provider_events = CountedEvents]
ArchivedTables == [AttemptsTables EXCEPT !.email_templates = ArchivableTemplates]
QueueTables ==
  [name \in DOMAIN ArchivedTables \cup {"tasks"} |->
     IF name \in DOMAIN ArchivedTables THEN ArchivedTables[name] ELSE TasksTable]
GroupNameTables == [QueueTables EXCEPT !.groups = UniqueGroups]
FromAddressTables == Applied(IdentityUpgrade[1], GroupNameTables)
FromNameTables == Applied(IdentityUpgrade[2], FromAddressTables)
IdentityTables == Applied(IdentityUpgrade[3], FromNameTables)

LEMMA TablesAreFunctions ==
  /\ Phase1Tables = [name \in DOMAIN Phase1Tables |-> Phase1Tables[name]]
  /\ AttemptsTables = [name \in DOMAIN AttemptsTables |-> AttemptsTables[name]]
  /\ ArchivedTables = [name \in DOMAIN ArchivedTables |-> ArchivedTables[name]]
  /\ QueueTables = [name \in DOMAIN QueueTables |-> QueueTables[name]]
  /\ GroupNameTables = [name \in DOMAIN GroupNameTables |-> GroupNameTables[name]]
  <1>1. Phase1Tables = [name \in DOMAIN Phase1Tables |-> Phase1Tables[name]]
    BY DEF Phase1Tables
  <1>2. AttemptsTables = [name \in DOMAIN AttemptsTables |-> AttemptsTables[name]]
    BY DEF AttemptsTables
  <1>3. ArchivedTables = [name \in DOMAIN ArchivedTables |-> ArchivedTables[name]]
    BY DEF ArchivedTables
  <1>4. QueueTables = [name \in DOMAIN QueueTables |-> QueueTables[name]]
    BY DEF QueueTables
  <1>5. GroupNameTables = [name \in DOMAIN GroupNameTables |-> GroupNameTables[name]]
    BY DEF GroupNameTables
  <1> QED
    BY <1>1, <1>2, <1>3, <1>4, <1>5

\* The table that each revision alters, as it finds it.
LEMMA TablesFound ==
  /\ "provider_events" \in DOMAIN Phase1Tables
  /\ Phase1Tables["provider_events"] = ProviderEventsTable
  /\ "email_templates" \in DOMAIN AttemptsTables
  /\ AttemptsTables["email_templates"] = EmailTemplatesTable
  /\ "tasks" \notin DOMAIN ArchivedTables
  /\ "groups" \in DOMAIN QueueTables
  /\ QueueTables["groups"] = GroupsTable
  /\ "organizations" \in DOMAIN GroupNameTables
  /\ GroupNameTables["organizations"] = OrganizationsTable
  <1>1. /\ DOMAIN AttemptsTables = DOMAIN Phase1Tables
        /\ \A name \in DOMAIN Phase1Tables \ {"provider_events"} :
             AttemptsTables[name] = Phase1Tables[name]
    BY DEF AttemptsTables
  <1>2. /\ DOMAIN ArchivedTables = DOMAIN AttemptsTables
        /\ \A name \in DOMAIN AttemptsTables \ {"email_templates"} :
             ArchivedTables[name] = AttemptsTables[name]
    BY DEF ArchivedTables
  <1>3. /\ DOMAIN QueueTables = DOMAIN ArchivedTables \cup {"tasks"}
        /\ \A name \in DOMAIN ArchivedTables : QueueTables[name] = ArchivedTables[name]
    BY DEF QueueTables
  <1>4. /\ DOMAIN GroupNameTables = DOMAIN QueueTables
        /\ \A name \in DOMAIN QueueTables \ {"groups"} :
             GroupNameTables[name] = QueueTables[name]
    BY DEF GroupNameTables
  <1>5. /\ {"provider_events", "email_templates", "groups", "organizations"}
             \subseteq DOMAIN Phase1Tables
        /\ "tasks" \notin DOMAIN Phase1Tables
        /\ Phase1Tables["provider_events"] = ProviderEventsTable
        /\ Phase1Tables["email_templates"] = EmailTemplatesTable
        /\ Phase1Tables["groups"] = GroupsTable
        /\ Phase1Tables["organizations"] = OrganizationsTable
    BY DEF Phase1Tables
  <1> QED
    BY <1>1, <1>2, <1>3, <1>4, <1>5

\* The schema of each revision, spelled out.
LEMMA Schemas ==
  /\ SchemaAt[0] = NoTables
  /\ SchemaAt[1] = Phase1Tables
  /\ SchemaAt[2] = AttemptsTables
  /\ SchemaAt[3] = ArchivedTables
  /\ SchemaAt[4] = QueueTables
  /\ SchemaAt[5] = GroupNameTables
  /\ SchemaAt[6] = IdentityTables
  <1>1. /\ Latest = 6
        /\ Upgrades[1] = Phase1Upgrade /\ Upgrades[2] = AttemptsUpgrade
        /\ Upgrades[3] = ArchivedUpgrade /\ Upgrades[4] = TasksUpgrade
        /\ Upgrades[5] = GroupNameUpgrade /\ Upgrades[6] = IdentityUpgrade
    BY DEF Latest, Upgrades
  <1>2. \A r \in 1..6 : SchemaAt[r] = After(Upgrades[r], SchemaAt[r - 1])[Len(Upgrades[r])]
    BY <1>1, SchemaSteps
  <1>3. SchemaAt[0] = NoTables
    BY SchemaSteps
  <1>4. SchemaAt[1] = Phase1Tables
    BY <1>1, <1>2, <1>3, Phase1Schema
  <1>5. SchemaAt[2] = AttemptsTables
    <2>1. SchemaAt[2] = After(AttemptsUpgrade, Phase1Tables)[Len(AttemptsUpgrade)]
      BY <1>1, <1>2, <1>4
    <2>2. After(AttemptsUpgrade, Phase1Tables)[Len(AttemptsUpgrade)]
            = Applied(AttemptsUpgrade[1], Phase1Tables)
      BY OneStatement DEF AttemptsUpgrade
    <2>3. Applied(AttemptsUpgrade[1], Phase1Tables) = AttemptsTables
      BY TablesFound DEF Applied, AttemptsTables, CountedEvents, AttemptsUpgrade, Statement
    <2> QED
      BY <2>1, <2>2, <2>3
  <1>6. SchemaAt[3] = ArchivedTables
    <2>1. SchemaAt[3] = After(ArchivedUpgrade, AttemptsTables)[Len(ArchivedUpgrade)]
      BY <1>1, <1>2, <1>5
    <2>2. After(ArchivedUpgrade, AttemptsTables)[Len(ArchivedUpgrade)]
            = Applied(ArchivedUpgrade[1], AttemptsTables)
      BY OneStatement DEF ArchivedUpgrade
    <2>3. Applied(ArchivedUpgrade[1], AttemptsTables) = ArchivedTables
      BY TablesFound
         DEF Applied, ArchivedTables, ArchivableTemplates, ArchivedUpgrade, Statement
    <2> QED
      BY <2>1, <2>2, <2>3
  <1>7. SchemaAt[4] = QueueTables
    <2>1. SchemaAt[4] = After(TasksUpgrade, ArchivedTables)[Len(TasksUpgrade)]
      BY <1>1, <1>2, <1>6
    <2>2. After(TasksUpgrade, ArchivedTables)[Len(TasksUpgrade)]
            = Applied(TasksUpgrade[1], ArchivedTables)
      BY OneStatement DEF TasksUpgrade
    <2>3. Applied(TasksUpgrade[1], ArchivedTables) = QueueTables
      BY DEF Applied, QueueTables, TasksUpgrade, Statement
    <2> QED
      BY <2>1, <2>2, <2>3
  <1>8. SchemaAt[5] = GroupNameTables
    <2>1. SchemaAt[5] = After(GroupNameUpgrade, QueueTables)[Len(GroupNameUpgrade)]
      BY <1>1, <1>2, <1>7
    <2>2. After(GroupNameUpgrade, QueueTables)[Len(GroupNameUpgrade)]
            = Applied(GroupNameUpgrade[1], QueueTables)
      BY OneStatement DEF GroupNameUpgrade
    <2>3. Applied(GroupNameUpgrade[1], QueueTables) = GroupNameTables
      BY TablesFound DEF Applied, GroupNameTables, UniqueGroups, GroupNameUpgrade, Statement
    <2> QED
      BY <2>1, <2>2, <2>3
  <1>9. SchemaAt[6] = IdentityTables
    <2>1. SchemaAt[6] = After(IdentityUpgrade, GroupNameTables)[Len(IdentityUpgrade)]
      BY <1>1, <1>2, <1>8
    <2>2. IdentityUpgrade = <<IdentityUpgrade[1], IdentityUpgrade[2], IdentityUpgrade[3]>>
      BY DEF IdentityUpgrade
    <2>3. After(IdentityUpgrade, GroupNameTables)[Len(IdentityUpgrade)] = IdentityTables
      <3> DEFINE a == IdentityUpgrade[1]
                 b == IdentityUpgrade[2]
                 c == IdentityUpgrade[3]
      <3>1. IdentityTables = Applied(c, Applied(b, Applied(a, GroupNameTables)))
        BY DEF IdentityTables, FromNameTables, FromAddressTables
      <3> HIDE DEF a, b, c
      <3>2. After(<<a, b, c>>, GroupNameTables)[Len(<<a, b, c>>)]
              = Applied(c, Applied(b, Applied(a, GroupNameTables)))
        BY ThreeStatements
      <3> QED
        BY <2>2, <3>1, <3>2 DEF a, b, c
    <2> QED
      BY <2>1, <2>3
  <1> QED
    BY <1>3, <1>4, <1>5, <1>6, <1>7, <1>8, <1>9

-----------------------------------------------------------------------------
(* Each downgrade() undoes its upgrade()                                   *)

LEMMA TableSpelled ==
  ASSUME NEW required, NEW optional, NEW unique, NEW refs
  PROVE  Table(required, optional, unique, refs)
           = Spelled({"id"} \cup required, optional, {}, {{"id"}} \cup unique, refs)
  BY DEF Table, Relation, Spelled

LEMMA DefaultedSpelled ==
  ASSUME NEW required, NEW optional, NEW defaulted, NEW unique, NEW refs, NEW columns
  PROVE  Defaulted(Spelled(required, optional, defaulted, unique, refs), columns)
           = Spelled(required \cup columns, optional, defaulted \cup columns, unique, refs)
  <1> DEFINE t == Spelled(required, optional, defaulted, unique, refs)
             u == [t EXCEPT !.required = required \cup columns]
  <1>1. t = [required |-> required, optional |-> optional, defaulted |-> defaulted,
             unique |-> unique, refs |-> refs]
    BY DEF Spelled
  <1>2. u = [required |-> required \cup columns, optional |-> optional,
             defaulted |-> defaulted, unique |-> unique, refs |-> refs]
    BY <1>1
  <1>3. Defaulted(t, columns) = [u EXCEPT !.defaulted = defaulted \cup columns]
    BY <1>1, <1>2 DEF Defaulted
  <1> HIDE DEF t, u
  <1>4. Defaulted(t, columns)
          = [required |-> required \cup columns, optional |-> optional,
             defaulted |-> defaulted \cup columns, unique |-> unique, refs |-> refs]
    BY <1>2, <1>3
  <1> QED
    BY <1>4 DEF t, Spelled

LEMMA DefaultedTable ==
  ASSUME NEW required, NEW optional, NEW unique, NEW refs, NEW columns, NEW all, NEW keys,
         {"id"} \cup required \cup columns = all,
         {{"id"}} \cup unique = keys
  PROVE  Defaulted(Table(required, optional, unique, refs), columns)
           = Spelled(all, optional, columns, keys, refs)
  <1>1. {} \cup columns = columns
    OBVIOUS
  <1> DEFINE r == {"id"} \cup required
             k == {{"id"}} \cup unique
  <1>2. Table(required, optional, unique, refs) = Spelled(r, optional, {}, k, refs)
    BY TableSpelled
  <1>3. k = keys /\ r \cup columns = all
    OBVIOUS
  <1> HIDE DEF r, k
  <1>4. Defaulted(Spelled(r, optional, {}, k, refs), columns)
          = Spelled(r \cup columns, optional, {} \cup columns, k, refs)
    BY DefaultedSpelled
  <1> QED
    BY <1>1, <1>2, <1>3, <1>4

\* Dropping a default undoes setting it, and dropping a key adding it.
LEMMA DefaultDropped ==
  ASSUME NEW required, NEW optional, NEW defaulted, NEW unique, NEW refs, NEW columns, NEW n,
         defaulted \cap columns = {},
         NEW tbl, tbl = Spelled(required, optional, defaulted, unique, refs)
  PROVE  Altered(Statement("drop_default", n, columns),
                 Altered(Statement("set_default", n, columns), tbl)) = tbl
  <1> DEFINE u == Altered(Statement("set_default", n, columns), tbl)
  <1>1. (defaulted \cup columns) \ columns = defaulted
    OBVIOUS
  <1>2. u = Spelled(required, optional, defaulted \cup columns, unique, refs)
    BY DEF Altered, Statement, Spelled
  <1> HIDE DEF u
  <1>3. Altered(Statement("drop_default", n, columns), u) = tbl
    BY <1>1, <1>2 DEF Altered, Statement, Spelled
  <1> QED
    BY <1>3 DEF u

LEMMA KeyDropped ==
  ASSUME NEW required, NEW optional, NEW defaulted, NEW unique, NEW refs, NEW columns, NEW n,
         columns \notin unique,
         NEW tbl, tbl = Spelled(required, optional, defaulted, unique, refs)
  PROVE  Altered(Statement("drop_unique", n, columns),
                 Altered(Statement("add_unique", n, columns), tbl)) = tbl
  <1> DEFINE u == Altered(Statement("add_unique", n, columns), tbl)
  <1>1. (unique \cup {columns}) \ {columns} = unique
    OBVIOUS
  <1>2. u = Spelled(required, optional, defaulted, unique \cup {columns}, refs)
    BY DEF Altered, Statement, Spelled
  <1> HIDE DEF u
  <1>3. Altered(Statement("drop_unique", n, columns), u) = tbl
    BY <1>1, <1>2 DEF Altered, Statement, Spelled
  <1> QED
    BY <1>3 DEF u

LEMMA OrganizationsSpelled ==
  OrganizationsTable
    = Spelled({"id", "name", "slug", "created_at", "updated_at"},
              {}, {"created_at", "updated_at"}, {{"id"}, {"slug"}}, {})
  <1> DEFINE named == {"name", "slug"}
             optional == {}
             stamps == {"created_at", "updated_at"}
             all == {"id", "name", "slug", "created_at", "updated_at"}
             key == {{"slug"}}
             keys == {{"id"}, {"slug"}}
             refs == {}
  <1>1. {"id"} \cup named \cup stamps = all
    OBVIOUS
  <1>2. {{"id"}} \cup key = keys
    OBVIOUS
  <1>3. OrganizationsTable = Defaulted(Table(named, optional, key, refs), stamps)
    BY DEF OrganizationsTable, Stamped
  <1> HIDE DEF named, optional, stamps, all, key, keys, refs
  <1>4. Defaulted(Table(named, optional, key, refs), stamps)
          = Spelled(all, optional, stamps, keys, refs)
    BY <1>1, <1>2, DefaultedTable
  <1>5. OrganizationsTable = Spelled(all, optional, stamps, keys, refs)
    BY <1>3, <1>4
  <1> QED
    BY <1>5 DEF named, optional, stamps, all, key, keys, refs

LEMMA EmailTemplatesSpelled ==
  EmailTemplatesTable
    = Spelled({"id", "org_id", "name", "current_version", "created_at", "updated_at"},
              {}, {"created_at", "updated_at"}, {{"id"}}, {<<"org_id", "organizations">>})
  <1> DEFINE named == {"org_id", "name", "current_version"}
             optional == {}
             stamps == {"created_at", "updated_at"}
             all == {"id", "org_id", "name", "current_version", "created_at", "updated_at"}
             key == {}
             keys == {{"id"}}
             refs == {<<"org_id", "organizations">>}
  <1>1. {"id"} \cup named \cup stamps = all
    OBVIOUS
  <1>2. {{"id"}} \cup key = keys
    OBVIOUS
  <1>3. EmailTemplatesTable = Defaulted(Table(named, optional, key, refs), stamps)
    BY DEF EmailTemplatesTable, Stamped
  <1> HIDE DEF named, optional, stamps, all, key, keys, refs
  <1>4. Defaulted(Table(named, optional, key, refs), stamps)
          = Spelled(all, optional, stamps, keys, refs)
    BY <1>1, <1>2, DefaultedTable
  <1>5. EmailTemplatesTable = Spelled(all, optional, stamps, keys, refs)
    BY <1>3, <1>4
  <1> QED
    BY <1>5 DEF named, optional, stamps, all, key, keys, refs

LEMMA GroupsSpelled ==
  GroupsTable
    = Spelled({"id", "org_id", "name", "created_at", "updated_at"},
              {}, {"created_at", "updated_at"}, {{"id"}}, {<<"org_id", "organizations">>})
  <1> DEFINE named == {"org_id", "name"}
             optional == {}
             stamps == {"created_at", "updated_at"}
             all == {"id", "org_id", "name", "created_at", "updated_at"}
             key == {}
             keys == {{"id"}}
             refs == {<<"org_id", "organizations">>}
  <1>1. {"id"} \cup named \cup stamps = all
    OBVIOUS
  <1>2. {{"id"}} \cup key = keys
    OBVIOUS
  <1>3. GroupsTable = Defaulted(Table(named, optional, key, refs), stamps)
    BY DEF GroupsTable, Stamped
  <1> HIDE DEF named, optional, stamps, all, key, keys, refs
  <1>4. Defaulted(Table(named, optional, key, refs), stamps)
          = Spelled(all, optional, stamps, keys, refs)
    BY <1>1, <1>2, DefaultedTable
  <1>5. GroupsTable = Spelled(all, optional, stamps, keys, refs)
    BY <1>3, <1>4
  <1> QED
    BY <1>5 DEF named, optional, stamps, all, key, keys, refs

LEMMA ProviderEventsSpelled ==
  ProviderEventsTable
    = Spelled({"id", "provider_event_id", "provider_message_id", "event_type", "occurred_at",
               "raw", "attempts", "received_at"},
              {"email_job_id", "processed_at"}, {"received_at"},
              {{"id"}, {"provider_event_id"}}, {<<"email_job_id", "email_jobs">>})
  <1> DEFINE named == {"provider_event_id", "provider_message_id", "event_type", "occurred_at",
                       "raw", "attempts"}
             optional == {"email_job_id", "processed_at"}
             stamps == {"received_at"}
             all == {"id", "provider_event_id", "provider_message_id", "event_type", "occurred_at",
                 "raw", "attempts", "received_at"}
             key == {{"provider_event_id"}}
             keys == {{"id"}, {"provider_event_id"}}
             refs == {<<"email_job_id", "email_jobs">>}
  <1>1. {"id"} \cup named \cup stamps = all
    OBVIOUS
  <1>2. {{"id"}} \cup key = keys
    OBVIOUS
  <1>3. ProviderEventsTable = Defaulted(Table(named, optional, key, refs), stamps)
    BY DEF ProviderEventsTable
  <1> HIDE DEF named, optional, stamps, all, key, keys, refs
  <1>4. Defaulted(Table(named, optional, key, refs), stamps)
          = Spelled(all, optional, stamps, keys, refs)
    BY <1>1, <1>2, DefaultedTable
  <1>5. ProviderEventsTable = Spelled(all, optional, stamps, keys, refs)
    BY <1>3, <1>4
  <1> QED
    BY <1>5 DEF named, optional, stamps, all, key, keys, refs

LEMMA AttemptsUndone ==
  After(AttemptsDowngrade, AttemptsTables)[Len(AttemptsDowngrade)] = Phase1Tables
  <1> DEFINE s == AttemptsUpgrade[1]
             d == AttemptsDowngrade[1]
             t == ProviderEventsTable
  <1>1. /\ s = Statement("set_default", "provider_events", {"attempts"})
        /\ d = Statement("drop_default", "provider_events", {"attempts"})
        /\ AttemptsDowngrade = <<d>>
    BY DEF AttemptsUpgrade, AttemptsDowngrade
  <1>2. /\ Alters(s) /\ Alters(d)
        /\ s.table = "provider_events" /\ d.table = "provider_events"
    BY <1>1 DEF Statement, Alters
  <1> HIDE DEF s, d
  <1>3. Altered(d, Altered(s, t)) = t
    <2> DEFINE stamps == {"received_at"}
               arg == {"attempts"}
    <2>1. PICK required, optional, unique, refs :
                 t = Spelled(required, optional, stamps, unique, refs)
      BY ProviderEventsSpelled
    <2>2. stamps \cap arg = {}
      OBVIOUS
    <2> HIDE DEF stamps, arg, t
    <2>3. /\ s = Statement("set_default", "provider_events", arg)
          /\ d = Statement("drop_default", "provider_events", arg)
      BY <1>1 DEF arg
    <2> QED
      BY <2>1, <2>2, <2>3, DefaultDropped
  <1>4. AttemptsTables = Applied(s, Phase1Tables)
    BY <1>2, TablesFound DEF Applied, Alters, AttemptsTables, CountedEvents, s
  <1>5. Applied(d, Applied(s, Phase1Tables)) = Phase1Tables
    BY <1>2, <1>3, TablesFound, TablesAreFunctions, AlteredUndone
  <1> QED
    BY <1>1, <1>4, <1>5, OneStatement

LEMMA ArchivedUndone ==
  After(ArchivedDowngrade, ArchivedTables)[Len(ArchivedDowngrade)] = AttemptsTables
  <1> DEFINE s == ArchivedUpgrade[1]
             d == ArchivedDowngrade[1]
             t == EmailTemplatesTable
  <1>1. /\ s = Statement("add_defaulted", "email_templates", {"archived"})
        /\ d = DropColumns("email_templates", {"archived"})
        /\ ArchivedDowngrade = <<d>>
    BY DEF ArchivedUpgrade, ArchivedDowngrade
  <1>2. /\ Alters(s) /\ Alters(d)
        /\ s.table = "email_templates" /\ d.table = "email_templates"
    BY <1>1 DEF Statement, DropColumns, Alters
  <1> HIDE DEF s, d
  <1>3. Altered(d, Altered(s, t)) = t
    <2> DEFINE required == {"id", "org_id", "name", "current_version", "created_at",
                            "updated_at"}
               defaulted == {"created_at", "updated_at"}
               unique == {{"id"}}
               refs == {<<"org_id", "organizations">>}
               none == {}
               name == "archived"
    <2>1. t = Spelled(required, none, defaulted, unique, refs)
      BY EmailTemplatesSpelled
    <2>2. /\ name \notin required /\ name \notin none /\ name \notin defaulted
          /\ \A key \in unique : name \notin key
          /\ \A ref \in refs : ref[1] # name
      OBVIOUS
    <2>3. /\ s = Statement("add_defaulted", "email_templates", {name})
          /\ d = DropColumns("email_templates", {name})
      BY <1>1
    <2> HIDE DEF name, required, none, defaulted, unique, refs, t
    <2>4. ASSUME NEW n
          PROVE  /\ Altered(DropColumns(n, {name}), Altered(AddColumns(n, {name}), t)) = t
                 /\ Altered(DropColumns(n, {name}),
                            Altered(Statement("add_defaulted", n, {name}), t)) = t
      BY <2>1, <2>2, ColumnDropped
    <2> QED
      BY <2>3, <2>4
  <1>4. ArchivedTables = Applied(s, AttemptsTables)
    BY <1>2, TablesFound DEF Applied, Alters, ArchivedTables, ArchivableTemplates, s
  <1>5. Applied(d, Applied(s, AttemptsTables)) = AttemptsTables
    BY <1>2, <1>3, TablesFound, TablesAreFunctions, AlteredUndone
  <1> QED
    BY <1>1, <1>4, <1>5, OneStatement

LEMMA TasksUndone ==
  After(TasksDowngrade, QueueTables)[Len(TasksDowngrade)] = ArchivedTables
  <1> DEFINE d == TasksDowngrade[1]
  <1>1. /\ d.op = "drop_if_present" /\ d.table = "tasks" /\ TasksDowngrade = <<d>>
    BY DEF TasksDowngrade, Statement
  <1> HIDE DEF d
  <1>2. Applied(d, QueueTables) = [name \in DOMAIN QueueTables \ {"tasks"} |-> QueueTables[name]]
    BY <1>1 DEF Applied
  <1>3. Applied(d, QueueTables) = ArchivedTables
    <2>1. DOMAIN QueueTables \ {"tasks"} = DOMAIN ArchivedTables
      BY TablesFound DEF QueueTables
    <2>2. \A name \in DOMAIN ArchivedTables : QueueTables[name] = ArchivedTables[name]
      BY DEF QueueTables
    <2> QED
      BY <1>2, <2>1, <2>2, TablesAreFunctions
  <1> QED
    BY <1>1, <1>3, OneStatement

LEMMA GroupNameUndone ==
  After(GroupNameDowngrade, GroupNameTables)[Len(GroupNameDowngrade)] = QueueTables
  <1> DEFINE s == GroupNameUpgrade[1]
             d == GroupNameDowngrade[1]
             t == GroupsTable
  <1>1. /\ s = Statement("add_unique", "groups", {"org_id", "name"})
        /\ d = Statement("drop_unique", "groups", {"org_id", "name"})
        /\ GroupNameDowngrade = <<d>>
    BY DEF GroupNameUpgrade, GroupNameDowngrade
  <1>2. /\ Alters(s) /\ Alters(d)
        /\ s.table = "groups" /\ d.table = "groups"
    BY <1>1 DEF Statement, Alters
  <1> HIDE DEF s, d
  <1>3. Altered(d, Altered(s, t)) = t
    <2> DEFINE unique == {{"id"}}
               arg == {"org_id", "name"}
    <2>1. PICK required, optional, stamps, refs :
                 t = Spelled(required, optional, stamps, unique, refs)
      BY GroupsSpelled
    <2>2. arg \notin unique
      OBVIOUS
    <2> HIDE DEF unique, arg, t
    <2>3. /\ s = Statement("add_unique", "groups", arg)
          /\ d = Statement("drop_unique", "groups", arg)
      BY <1>1 DEF arg
    <2> QED
      BY <2>1, <2>2, <2>3, KeyDropped
  <1>4. GroupNameTables = Applied(s, QueueTables)
    BY <1>2, TablesFound DEF Applied, Alters, GroupNameTables, UniqueGroups, s
  <1>5. Applied(d, Applied(s, QueueTables)) = QueueTables
    BY <1>2, <1>3, TablesFound, TablesAreFunctions, AlteredUndone
  <1> QED
    BY <1>1, <1>4, <1>5, OneStatement

\* The three columns of the sending identity go in the order opposite to their coming.
LEMMA IdentityUndone ==
  After(IdentityDowngrade, IdentityTables)[Len(IdentityDowngrade)] = GroupNameTables
  <1> DEFINE a == IdentityUpgrade[1]
             b == IdentityUpgrade[2]
             c == IdentityUpgrade[3]
             x == IdentityDowngrade[1]
             y == IdentityDowngrade[2]
             z == IdentityDowngrade[3]
             t0 == OrganizationsTable
             t1 == Altered(a, t0)
             t2 == Altered(b, t1)
  <1>1. /\ a = AddColumns("organizations", {"from_address"})
        /\ b = AddColumns("organizations", {"from_name"})
        /\ c = AddColumns("organizations", {"reply_to_address"})
        /\ x = DropColumns("organizations", {"reply_to_address"})
        /\ y = DropColumns("organizations", {"from_name"})
        /\ z = DropColumns("organizations", {"from_address"})
        /\ IdentityDowngrade = <<x, y, z>>
    BY DEF IdentityUpgrade, IdentityDowngrade
  <1>2. /\ Alters(a) /\ Alters(b) /\ Alters(c) /\ Alters(x) /\ Alters(y) /\ Alters(z)
        /\ a.table = "organizations" /\ b.table = "organizations" /\ c.table = "organizations"
        /\ x.table = "organizations" /\ y.table = "organizations" /\ z.table = "organizations"
    BY <1>1 DEF Statement, AddColumns, DropColumns, Alters
  <1> HIDE DEF a, b, c, x, y, z
  <1>3. Altered(z, t1) = t0 /\ Altered(y, t2) = t1 /\ Altered(x, Altered(c, t2)) = t2
    <2> DEFINE required == {"id", "name", "slug", "created_at", "updated_at"}
               none == {}
               one == none \cup {"from_address"}
               two == one \cup {"from_name"}
               defaulted == {"created_at", "updated_at"}
               unique == {{"id"}, {"slug"}}
               Apart(name, optional) ==
                 /\ name \notin required /\ name \notin optional /\ name \notin defaulted
                 /\ \A key \in unique : name \notin key
                 /\ \A ref \in none : ref[1] # name
    <2>1. t0 = Spelled(required, none, defaulted, unique, none)
      BY OrganizationsSpelled
    <2>2. /\ Apart("from_address", none)
          /\ Apart("from_name", one)
          /\ Apart("reply_to_address", two)
      OBVIOUS
    <2>3. ASSUME NEW optional, NEW name, NEW t,
                 t = Spelled(required, optional, defaulted, unique, none), Apart(name, optional)
          PROVE  /\ Altered(AddColumns("organizations", {name}), t)
                      = Spelled(required, optional \cup {name}, defaulted, unique, none)
                 /\ Altered(DropColumns("organizations", {name}),
                            Altered(AddColumns("organizations", {name}), t)) = t
      <3> HIDE DEF required, none, one, two, defaulted, unique
      <3>1. Altered(AddColumns("organizations", {name}), t)
              = Spelled(required, optional \cup {name}, defaulted, unique, none)
        BY <2>3 DEF Altered, AddColumns, Statement, Spelled
      <3>2. Altered(DropColumns("organizations", {name}),
                    Altered(AddColumns("organizations", {name}), t)) = t
        BY <2>3, ColumnDropped
      <3> QED
        BY <3>1, <3>2
    <2> HIDE DEF t0, Apart, required, none, defaulted, unique
    <2>4. t1 = Spelled(required, one, defaulted, unique, none) /\ Altered(z, t1) = t0
      BY <1>1, <2>1, <2>2, <2>3
    <2> HIDE DEF t1, one
    <2>5. t2 = Spelled(required, two, defaulted, unique, none) /\ Altered(y, t2) = t1
      BY <1>1, <2>2, <2>3, <2>4
    <2> HIDE DEF t2, two
    <2>6. Altered(x, Altered(c, t2)) = t2
      BY <1>1, <2>2, <2>3, <2>5
    <2> QED
      BY <2>4, <2>5, <2>6 DEF t0, t1, t2
  <1> HIDE DEF t0
  <1>4. /\ "organizations" \in DOMAIN GroupNameTables
        /\ GroupNameTables["organizations"] = t0
        /\ GroupNameTables = [name \in DOMAIN GroupNameTables |-> GroupNameTables[name]]
    BY TablesFound, TablesAreFunctions DEF t0
  <1>5. FromAddressTables = [GroupNameTables EXCEPT !["organizations"] = t1]
    BY <1>2, <1>4 DEF FromAddressTables, Applied, Alters, a
  <1>6. /\ "organizations" \in DOMAIN FromAddressTables
        /\ FromAddressTables["organizations"] = t1
        /\ FromAddressTables = [name \in DOMAIN FromAddressTables |-> FromAddressTables[name]]
    BY <1>4, <1>5
  <1>7. FromNameTables = [FromAddressTables EXCEPT !["organizations"] = t2]
    BY <1>2, <1>6 DEF FromNameTables, Applied, Alters, b
  <1>8. /\ "organizations" \in DOMAIN FromNameTables
        /\ FromNameTables["organizations"] = t2
        /\ FromNameTables = [name \in DOMAIN FromNameTables |-> FromNameTables[name]]
    BY <1>6, <1>7
  <1>9. Applied(x, IdentityTables) = FromNameTables
    BY <1>2, <1>3, <1>8, AlteredUndone DEF IdentityTables, c
  <1>10. Applied(y, FromNameTables) = FromAddressTables
    BY <1>2, <1>3, <1>6, AlteredUndone DEF FromNameTables, b
  <1>11. Applied(z, FromAddressTables) = GroupNameTables
    BY <1>2, <1>3, <1>4, AlteredUndone DEF FromAddressTables, a
  <1>12. After(<<x, y, z>>, IdentityTables)[Len(<<x, y, z>>)]
           = Applied(z, Applied(y, Applied(x, IdentityTables)))
    BY ThreeStatements
  <1> QED
    BY <1>1, <1>9, <1>10, <1>11, <1>12

\* Run from the schema of its revision, each downgrade() leaves the schema of the one before:
\* nothing of its upgrade() stays behind and nothing older is lost.
THEOREM DowngradesUndo ==
  ASSUME NEW r \in 1..Latest
  PROVE  After(Downgrades[r], SchemaAt[r])[Len(Downgrades[r])] = SchemaAt[r - 1]
  <1>1. /\ Latest = 6
        /\ Downgrades[1] = Phase1Downgrade /\ Downgrades[2] = AttemptsDowngrade
        /\ Downgrades[3] = ArchivedDowngrade /\ Downgrades[4] = TasksDowngrade
        /\ Downgrades[5] = GroupNameDowngrade /\ Downgrades[6] = IdentityDowngrade
    BY DEF Latest, Upgrades, Downgrades
  <1>2. r = 1 \/ r = 2 \/ r = 3 \/ r = 4 \/ r = 5 \/ r = 6
    BY <1>1
  <1> QED
    BY <1>1, <1>2, Schemas, Phase1Undone, AttemptsUndone, ArchivedUndone, TasksUndone,
       GroupNameUndone, IdentityUndone

-----------------------------------------------------------------------------
(* The last schema is the one of the models                                *)

\* The tables no later revision alters are created as the ORM declares them ...
LEMMA UnalteredModels ==
  /\ UsersTable = User /\ AuditLogTable = AuditLog /\ ContactsTable = Contact
  /\ EventsTable = Event /\ OrganizationMembersTable = OrganizationMember
  /\ SessionsTable = Session /\ TagsTable = Tag /\ CampaignsTable = Campaign
  /\ ContactGroupsTable = ContactGroup /\ ContactTagsTable = ContactTag
  /\ JobsTable = Job /\ TemplateVersionsTable = TemplateVersion
  /\ EmailJobsTable = EmailJob /\ EmailEngagementsTable = EmailEngagement
  /\ TasksTable = Tasks
  <1>1. UsersTable = User
    BY DEF UsersTable, User
  <1>2. AuditLogTable = AuditLog
    <2>1. {<<"actor_user_id", "users">>, <<"org_id", "organizations">>}
            = {OfOrganization, <<"actor_user_id", "users">>}
      BY DEF OfOrganization
    <2> QED
      BY <2>1 DEF AuditLogTable, AuditLog
  <1>3. ContactsTable = Contact
    BY DEF ContactsTable, Contact, OfOrganization
  <1>4. EventsTable = Event
    <2>1. {<<"org_id", "organizations">>} = {OfOrganization} \cup {}
      BY DEF OfOrganization
    <2> QED
      BY <2>1 DEF EventsTable, Event, Named
  <1>5. OrganizationMembersTable = OrganizationMember
    BY DEF OrganizationMembersTable, OrganizationMember, OfOrganization
  <1>6. SessionsTable = Session
    BY DEF SessionsTable, Session
  <1>7. TagsTable = Tag
    <2>1. {<<"org_id", "organizations">>} = {OfOrganization} \cup {}
      BY DEF OfOrganization
    <2> QED
      BY <2>1 DEF TagsTable, Tag, Named
  <1>8. CampaignsTable = Campaign
    <2>1. {<<"created_by", "users">>, <<"event_id", "events">>,
           <<"org_id", "organizations">>, <<"template_id", "email_templates">>}
            = {OfOrganization, <<"event_id", "events">>,
               <<"template_id", "email_templates">>, <<"created_by", "users">>}
      BY DEF OfOrganization
    <2> QED
      BY <2>1 DEF CampaignsTable, Campaign
  <1>9. ContactGroupsTable = ContactGroup
    BY DEF ContactGroupsTable, ContactGroup
  <1>10. ContactTagsTable = ContactTag
    BY DEF ContactTagsTable, ContactTag
  <1>11. JobsTable = Job
    <2>1. {<<"event_id", "events">>, <<"org_id", "organizations">>}
            = {OfOrganization} \cup {<<"event_id", "events">>}
      BY DEF OfOrganization
    <2> QED
      BY <2>1 DEF JobsTable, Job, Named
  <1>12. TemplateVersionsTable = TemplateVersion
    BY DEF TemplateVersionsTable, TemplateVersion
  <1>13. EmailJobsTable = EmailJob
    BY DEF EmailJobsTable, EmailJob
  <1>14. EmailEngagementsTable = EmailEngagement
    BY DEF EmailEngagementsTable, EmailEngagement
  <1>15. TasksTable = Tasks
    BY DEF TasksTable, Tasks
  <1> QED
    BY <1>1, <1>2, <1>3, <1>4, <1>5, <1>6, <1>7, <1>8, <1>9, <1>10, <1>11, <1>12, <1>13,
       <1>14, <1>15

\* ... and three of those that are altered end up as it declares them.
LEMMA AlteredModels ==
  /\ CountedEvents = ProviderEvent
  /\ ArchivableTemplates = EmailTemplate
  /\ UniqueGroups = Group
  <1>1. CountedEvents = ProviderEvent
    <2>1. ASSUME NEW required, NEW optional, NEW defaulted, NEW unique, NEW refs, NEW columns
          PROVE  Altered(Statement("set_default", "provider_events", columns),
                         Spelled(required, optional, defaulted, unique, refs))
                   = Spelled(required, optional, defaulted \cup columns, unique, refs)
      BY DEF Altered, Statement, Spelled
    <2> DEFINE named == {"provider_event_id", "provider_message_id", "event_type",
                         "occurred_at", "raw"}
               optional == {"email_job_id", "processed_at"}
               before == {"received_at"}
               stamps == {"received_at", "attempts"}
               counter == {"attempts"}
               all == {"id", "provider_event_id", "provider_message_id", "event_type",
                       "occurred_at", "raw", "attempts", "received_at"}
               key == {{"provider_event_id"}}
               keys == {{"id"}, {"provider_event_id"}}
               refs == {<<"email_job_id", "email_jobs">>}
    <2>2. /\ {"id"} \cup named \cup stamps = all
          /\ {{"id"}} \cup key = keys
          /\ before \cup counter = stamps
      OBVIOUS
    <2>3. ProviderEventsTable = Spelled(all, optional, before, keys, refs)
      BY ProviderEventsSpelled
    <2>4. /\ ProviderEvent = Defaulted(Table(named, optional, key, refs), stamps)
          /\ CountedEvents
               = Altered(Statement("set_default", "provider_events", counter), ProviderEventsTable)
      BY DEF ProviderEvent, CountedEvents, AttemptsUpgrade
    <2> HIDE DEF named, optional, before, stamps, counter, all, key, keys, refs
    <2>5. ProviderEvent = Spelled(all, optional, stamps, keys, refs)
      BY <2>2, <2>4, DefaultedTable
    <2> QED
      BY <2>1, <2>2, <2>3, <2>4, <2>5
  <1>2. ArchivableTemplates = EmailTemplate
    <2>1. Altered(Statement("add_defaulted", "email_templates", {"archived"}), EmailTemplatesTable)
            = Defaulted(EmailTemplatesTable, {"archived"})
      BY DEF Altered, Statement
    <2>2. EmailTemplate = Defaulted(EmailTemplatesTable, {"archived"})
      BY DEF EmailTemplate, EmailTemplatesTable, OfOrganization
    <2> QED
      BY <2>1, <2>2 DEF ArchivableTemplates, ArchivedUpgrade
  <1>3. UniqueGroups = Group
    <2>1. ASSUME NEW required, NEW optional, NEW defaulted, NEW unique, NEW refs, NEW columns
          PROVE  Altered(Statement("add_unique", "groups", columns),
                         Spelled(required, optional, defaulted, unique, refs))
                   = Spelled(required, optional, defaulted, unique \cup {columns}, refs)
      BY DEF Altered, Statement, Spelled
    <2> DEFINE named == {"org_id", "name"}
               stamps == {"created_at", "updated_at"}
               all == {"id", "org_id", "name", "created_at", "updated_at"}
               before == {{"id"}}
               keys == {{"id"}, named}
               none == {}
               key == {named}
               refs == {<<"org_id", "organizations">>}
    <2>2. /\ {"id"} \cup named \cup stamps = all
          /\ {{"id"}} \cup key = keys
          /\ before \cup {named} = keys
      OBVIOUS
    <2>3. GroupsTable = Spelled(all, none, stamps, before, refs)
      BY GroupsSpelled
    <2>4. {OfOrganization} \cup {} = refs
      BY DEF OfOrganization
    <2>5. /\ Group = Defaulted(Table(named, none, key, refs), stamps)
          /\ UniqueGroups = Altered(Statement("add_unique", "groups", named), GroupsTable)
      BY <2>4 DEF Group, Named, Stamped, UniqueGroups, GroupNameUpgrade
    <2> HIDE DEF named, stamps, all, before, key, keys, none, refs
    <2>6. Group = Spelled(all, none, stamps, keys, refs)
      BY <2>2, <2>5, DefaultedTable
    <2> QED
      BY <2>1, <2>2, <2>3, <2>5, <2>6
  <1> QED
    BY <1>1, <1>2, <1>3

\* The last three statements leave the model of an organization.
LEMMA OrganizationModel ==
  IdentityTables = [GroupNameTables EXCEPT !["organizations"] = Organization]
  <1> DEFINE a == IdentityUpgrade[1]
             b == IdentityUpgrade[2]
             c == IdentityUpgrade[3]
             t0 == OrganizationsTable
             t1 == Altered(a, t0)
             t2 == Altered(b, t1)
             t3 == Altered(c, t2)
             ts == GroupNameTables
             name == "organizations"
  <1>1. /\ a = AddColumns(name, {"from_address"})
        /\ b = AddColumns(name, {"from_name"})
        /\ c = AddColumns(name, {"reply_to_address"})
    BY DEF IdentityUpgrade
  <1>2. /\ Alters(a) /\ Alters(b) /\ Alters(c)
        /\ a.table = name /\ b.table = name /\ c.table = name
    BY <1>1 DEF AddColumns, Statement, Alters
  <1>3. /\ FromAddressTables = Applied(a, ts)
        /\ FromNameTables = Applied(b, FromAddressTables)
        /\ IdentityTables = Applied(c, FromNameTables)
    BY DEF FromAddressTables, FromNameTables, IdentityTables
  <1>4. t3 = Organization
    <2> DEFINE named == {"name", "slug"}
               stamps == {"created_at", "updated_at"}
               all == {"id", "name", "slug", "created_at", "updated_at"}
               key == {{"slug"}}
               keys == {{"id"}, {"slug"}}
               none == {}
               one == none \cup {"from_address"}
               two == one \cup {"from_name"}
               three == two \cup {"reply_to_address"}
               optional == {"from_address", "from_name", "reply_to_address"}
    <2>1. /\ {"id"} \cup named \cup stamps = all
          /\ {{"id"}} \cup key = keys
          /\ three = optional
      OBVIOUS
    <2>2. ASSUME NEW had, NEW column, NEW t, t = Spelled(all, had, stamps, keys, none)
          PROVE  Altered(AddColumns(name, {column}), t)
                   = Spelled(all, had \cup {column}, stamps, keys, none)
      <3> HIDE DEF named, stamps, all, key, keys, none, one, two, three, optional
      <3> QED
        BY <2>2 DEF Altered, AddColumns, Statement, Spelled
    <2>3. t0 = Spelled(all, none, stamps, keys, none)
      BY OrganizationsSpelled
    <2>4. Organization = Defaulted(Table(named, optional, key, none), stamps)
      BY DEF Organization, Stamped
    <2> HIDE DEF a, b, c, t0, name, named, stamps, all, key, keys, none, optional
    <2>5. t1 = Spelled(all, one, stamps, keys, none)
      BY <1>1, <2>2, <2>3
    <2> HIDE DEF t1, one
    <2>6. t2 = Spelled(all, two, stamps, keys, none)
      BY <1>1, <2>2, <2>5
    <2> HIDE DEF t2, two
    <2>7. t3 = Spelled(all, three, stamps, keys, none)
      BY <1>1, <2>2, <2>6
    <2> HIDE DEF t3, three
    <2>8. Organization = Spelled(all, optional, stamps, keys, none)
      BY <2>1, <2>4, DefaultedTable
    <2> QED
      BY <2>1, <2>7, <2>8 DEF t0, t1, t2, t3, name
  <1> HIDE DEF a, b, c, t0, name
  <1>5. name \in DOMAIN ts /\ ts[name] = t0 /\ ts = [n \in DOMAIN ts |-> ts[n]]
    BY TablesFound, TablesAreFunctions DEF t0, name
  <1> HIDE DEF ts
  <1>6. FromAddressTables = [ts EXCEPT ![name] = t1]
    BY <1>2, <1>3, <1>5 DEF Applied, Alters
  <1>7. FromNameTables = [ts EXCEPT ![name] = t2]
    <2>1. FromNameTables
            = [FromAddressTables EXCEPT ![name] = Altered(b, FromAddressTables[name])]
      BY <1>2, <1>3 DEF Applied, Alters
    <2> QED
      BY <1>5, <1>6, <2>1
  <1>8. IdentityTables = [ts EXCEPT ![name] = t3]
    <2>1. IdentityTables
            = [FromNameTables EXCEPT ![name] = Altered(c, FromNameTables[name])]
      BY <1>2, <1>3 DEF Applied, Alters
    <2> QED
      BY <1>5, <1>7, <2>1
  <1> QED
    BY <1>4, <1>8 DEF ts, name

\* The schema of the last revision is the one models.py declares, table by table: a column,
\* default, key or reference that the revisions and the models disagree on would refute it.
THEOREM LatestIsTheModels ==
  SchemaAt[Latest] = ProgramTables
  <1>1. /\ Latest = 6
        /\ SchemaAt[6] = IdentityTables
    BY Schemas DEF Latest, Upgrades
  <1>2. DOMAIN IdentityTables = DOMAIN ProgramTables
    BY OrganizationModel
       DEF GroupNameTables, QueueTables, ArchivedTables, AttemptsTables, Phase1Tables,
           ProgramTables
  <1>3. \A name \in DOMAIN ProgramTables :
          IdentityTables[name]
            = CASE name = "organizations" -> Organization
                [] name = "groups" -> UniqueGroups
                [] name = "tasks" -> TasksTable
                [] name = "email_templates" -> ArchivableTemplates
                [] name = "provider_events" -> CountedEvents
                [] OTHER -> Phase1Tables[name]
    BY <1>2, OrganizationModel
       DEF GroupNameTables, QueueTables, ArchivedTables, AttemptsTables, Phase1Tables,
           ProgramTables
  <1>4. \A name \in DOMAIN ProgramTables : IdentityTables[name] = ProgramTables[name]
    BY <1>3, UnalteredModels, AlteredModels DEF Phase1Tables, ProgramTables
  <1>5. /\ IdentityTables = [name \in DOMAIN IdentityTables |-> IdentityTables[name]]
        /\ ProgramTables = [name \in DOMAIN ProgramTables |-> ProgramTables[name]]
    <2>1. IdentityTables = [name \in DOMAIN IdentityTables |-> IdentityTables[name]]
      BY OrganizationModel
    <2>2. ProgramTables = [name \in DOMAIN ProgramTables |-> ProgramTables[name]]
      BY DEF ProgramTables
    <2> QED
      BY <2>1, <2>2
  <1>6. IdentityTables = ProgramTables
    BY <1>2, <1>4, <1>5
  <1> QED
    BY <1>1, <1>6

-----------------------------------------------------------------------------
(* What a table takes it goes on taking                                    *)

\* The INSERTs that name the columns of t, or all those t requires, suit u too.
Grows(t, u) ==
  /\ Columns(t) \subseteq Columns(u)
  /\ u.required \ u.defaulted \subseteq t.required \ t.defaulted

\* Every kind of alteration an upgrade() makes lets the table grow.
LEMMA AlteredGrows ==
  ASSUME NEW s, s.op \in {"set_default", "add_defaulted", "add_nullable", "add_unique"},
         NEW required, NEW optional, NEW defaulted, NEW unique, NEW refs,
         NEW t, t = Spelled(required, optional, defaulted, unique, refs)
  PROVE  Grows(t, Altered(s, t))
  <1>1. CASE s.op = "set_default"
    <2>1. Altered(s, t) = [t EXCEPT !.defaulted = defaulted \cup s.arg]
      BY <1>1 DEF Altered, Spelled
    <2> QED
      BY <2>1 DEF Grows, Columns, Spelled
  <1>2. CASE s.op = "add_defaulted"
    <2>1. Altered(s, t) = Spelled(required \cup s.arg, optional, defaulted \cup s.arg, unique, refs)
      BY <1>2, DefaultedSpelled DEF Altered
    <2> QED
      BY <2>1 DEF Grows, Columns, Spelled
  <1>3. CASE s.op = "add_nullable"
    <2>1. Altered(s, t) = [t EXCEPT !.optional = optional \cup s.arg]
      BY <1>3 DEF Altered, Spelled
    <2> QED
      BY <2>1 DEF Grows, Columns, Spelled
  <1>4. CASE s.op = "add_unique"
    <2>1. Altered(s, t) = [t EXCEPT !.unique = unique \cup {s.arg}]
      BY <1>4 DEF Altered, Spelled
    <2> QED
      BY <2>1 DEF Grows, Columns, Spelled
  <1> QED
    BY <1>1, <1>2, <1>3, <1>4

LEMMA AlteredTablesGrow ==
  /\ Grows(ProviderEventsTable, CountedEvents)
  /\ Grows(EmailTemplatesTable, ArchivableTemplates)
  /\ Grows(GroupsTable, UniqueGroups)
  /\ Grows(OrganizationsTable, Organization)
  <1>1. Grows(ProviderEventsTable, CountedEvents)
    <2>1. AttemptsUpgrade[1].op = "set_default"
      BY DEF AttemptsUpgrade, Statement
    <2> QED
      BY <2>1, ProviderEventsSpelled, AlteredGrows DEF CountedEvents
  <1>2. Grows(EmailTemplatesTable, ArchivableTemplates)
    <2>1. ArchivedUpgrade[1].op = "add_defaulted"
      BY DEF ArchivedUpgrade, Statement
    <2> QED
      BY <2>1, EmailTemplatesSpelled, AlteredGrows DEF ArchivableTemplates
  <1>3. Grows(GroupsTable, UniqueGroups)
    <2>1. GroupNameUpgrade[1].op = "add_unique"
      BY DEF GroupNameUpgrade, Statement
    <2> QED
      BY <2>1, GroupsSpelled, AlteredGrows DEF UniqueGroups
  <1>4. Grows(OrganizationsTable, Organization)
    <2>1. /\ OrganizationsTable.required = {"id", "name", "slug", "created_at", "updated_at"}
          /\ OrganizationsTable.optional = {}
          /\ OrganizationsTable.defaulted = {"created_at", "updated_at"}
      BY OrganizationsSpelled DEF Spelled
    <2>2. /\ Organization.required = {"id", "name", "slug", "created_at", "updated_at"}
          /\ Organization.defaulted = {"created_at", "updated_at"}
      BY DEF Organization, Stamped, Defaulted, Table, Relation
    <2> QED
      BY <2>1, <2>2 DEF Grows, Columns
  <1> QED
    BY <1>1, <1>2, <1>3, <1>4

LEMMA GrowsTransitive ==
  ASSUME NEW t, NEW u, NEW v, Grows(t, u), Grows(u, v)
  PROVE  Grows(t, v)
  BY DEF Grows

\* A schema keeps the tables of the one before and lets them grow.
Extends(older, newer) ==
  \A name \in DOMAIN older : name \in DOMAIN newer /\ Grows(older[name], newer[name])

\* Each revision extends the one before it, and so all the earlier ones.
LEMMA RevisionsExtend ==
  ASSUME NEW r \in 1..(Latest - 1)
  PROVE  Extends(SchemaAt[r], SchemaAt[r + 1])
  <1>1. \A t : Grows(t, t)
    BY DEF Grows
  <1>2. Extends(Phase1Tables, AttemptsTables)
    <2>1. /\ DOMAIN AttemptsTables = DOMAIN Phase1Tables
          /\ AttemptsTables["provider_events"] = CountedEvents
          /\ \A name \in DOMAIN Phase1Tables \ {"provider_events"} :
               AttemptsTables[name] = Phase1Tables[name]
      BY TablesFound DEF AttemptsTables
    <2> QED
      BY <1>1, <2>1, TablesFound, AlteredTablesGrow DEF Extends
  <1>3. Extends(AttemptsTables, ArchivedTables)
    <2>1. /\ DOMAIN ArchivedTables = DOMAIN AttemptsTables
          /\ ArchivedTables["email_templates"] = ArchivableTemplates
          /\ \A name \in DOMAIN AttemptsTables \ {"email_templates"} :
               ArchivedTables[name] = AttemptsTables[name]
      BY TablesFound DEF ArchivedTables
    <2> QED
      BY <1>1, <2>1, TablesFound, AlteredTablesGrow DEF Extends
  <1>4. Extends(ArchivedTables, QueueTables)
    BY <1>1 DEF Extends, QueueTables
  <1>5. Extends(QueueTables, GroupNameTables)
    <2>1. /\ DOMAIN GroupNameTables = DOMAIN QueueTables
          /\ GroupNameTables["groups"] = UniqueGroups
          /\ \A name \in DOMAIN QueueTables \ {"groups"} :
               GroupNameTables[name] = QueueTables[name]
      BY TablesFound DEF GroupNameTables
    <2> QED
      BY <1>1, <2>1, TablesFound, AlteredTablesGrow DEF Extends
  <1>6. Extends(GroupNameTables, IdentityTables)
    <2>1. /\ DOMAIN IdentityTables = DOMAIN GroupNameTables
          /\ IdentityTables["organizations"] = Organization
          /\ \A name \in DOMAIN GroupNameTables \ {"organizations"} :
               IdentityTables[name] = GroupNameTables[name]
      BY TablesFound, OrganizationModel
    <2> QED
      BY <1>1, <2>1, TablesFound, AlteredTablesGrow DEF Extends
  <1>7. r = 1 \/ r = 2 \/ r = 3 \/ r = 4 \/ r = 5
    BY DEF Latest, Upgrades
  <1> QED
    BY <1>2, <1>3, <1>4, <1>5, <1>6, <1>7, Schemas

LEMMA LaterExtends ==
  ASSUME NEW older \in 1..Latest, NEW newer \in older..Latest
  PROVE  Extends(SchemaAt[older], SchemaAt[newer])
  <1> DEFINE N == Latest - older
             T == {k \in 0..N : Extends(SchemaAt[older], SchemaAt[older + k])}
  <1>1. Latest = 6
    BY DEF Latest, Upgrades
  <1>2. N \in Nat /\ newer - older \in 0..N
    BY <1>1
  <1>3. 0 \in T
    <2>1. older + 0 = older
      BY <1>1
    <2>2. Extends(SchemaAt[older], SchemaAt[older])
      BY DEF Extends, Grows
    <2> QED
      BY <1>2, <2>1, <2>2
  <1>4. ASSUME NEW k \in 1..N, k - 1 \in T
        PROVE  k \in T
    <2>1. older + (k - 1) \in 1..(Latest - 1) /\ (older + (k - 1)) + 1 = older + k
      BY <1>1
    <2>2. Extends(SchemaAt[older + (k - 1)], SchemaAt[older + k])
      BY <2>1, RevisionsExtend
    <2>3. Extends(SchemaAt[older], SchemaAt[older + (k - 1)])
      BY <1>4
    <2>4. Extends(SchemaAt[older], SchemaAt[older + k])
      BY <2>2, <2>3, GrowsTransitive DEF Extends
    <2> QED
      BY <1>2, <2>4
  <1>5. newer - older \in T
    <2> HIDE DEF N, T
    <2> QED
      BY <1>2, <1>3, <1>4, Induction
  <1>6. older + (newer - older) = newer
    BY <1>1
  <1> QED
    BY <1>5, <1>6

\* The two tables written by raw SQL, from the revision on that made the statement work.
LEMMA RawInserts ==
  /\ \A r \in 2..Latest : TakesInsert(SchemaAt[r]["provider_events"], InsertEvent)
  /\ \A r \in 1..Latest : "tasks" \in DOMAIN SchemaAt[r] =>
       TakesInsert(SchemaAt[r]["tasks"], InsertTask)
  <1>1. Latest = 6
    BY DEF Latest, Upgrades
  <1>2. TakesInsert(CountedEvents, InsertEvent)
    BY AlteredModels
       DEF TakesInsert, InsertEvent, Columns, ProviderEvent, Defaulted, Table, Relation
  <1>3. TakesInsert(TasksTable, InsertTask)
    BY DEF TakesInsert, InsertTask, Columns, TasksTable, Defaulted, Table, Relation
  <1>4. \A t, u, columns : TakesInsert(t, columns) /\ Grows(t, u) => TakesInsert(u, columns)
    BY DEF TakesInsert, Grows
  <1>5. /\ "provider_events" \in DOMAIN SchemaAt[2]
        /\ SchemaAt[2]["provider_events"] = CountedEvents
    BY Schemas, TablesFound DEF AttemptsTables
  <1>6. /\ "tasks" \in DOMAIN SchemaAt[4]
        /\ SchemaAt[4]["tasks"] = TasksTable
    BY Schemas, TablesFound DEF QueueTables
  <1>7. /\ "tasks" \notin DOMAIN SchemaAt[1]
        /\ "tasks" \notin DOMAIN SchemaAt[2]
        /\ "tasks" \notin DOMAIN SchemaAt[3]
    BY Schemas, TablesFound DEF AttemptsTables, ArchivedTables
  <1>8. ASSUME NEW r \in 2..Latest
        PROVE  TakesInsert(SchemaAt[r]["provider_events"], InsertEvent)
    <2>1. Extends(SchemaAt[2], SchemaAt[r])
      BY <1>1, LaterExtends
    <2> QED
      BY <1>2, <1>4, <1>5, <2>1 DEF Extends
  <1>9. ASSUME NEW r \in 1..Latest, "tasks" \in DOMAIN SchemaAt[r]
        PROVE  TakesInsert(SchemaAt[r]["tasks"], InsertTask)
    <2>1. r \in 4..Latest
      BY <1>1, <1>7, <1>9
    <2>2. Extends(SchemaAt[4], SchemaAt[r])
      BY <1>1, <2>1, LaterExtends
    <2> QED
      BY <1>3, <1>4, <1>6, <2>2 DEF Extends
  <1> QED
    BY <1>8, <1>9

-----------------------------------------------------------------------------
(* The invariant                                                           *)

TypeInv ==
  /\ revision \in Revisions
  /\ release \in Revisions
  /\ DOMAIN run = {"target", "at", "done", "via", "tables"}
  /\ run.target \in Revisions
  /\ run.at \in Revisions

\* The transaction of a run sees what the part of the step it has executed makes of the
\* schema of the revision it has stamped.
RunInv ==
  /\ run.at = run.target => run.done = 0 /\ run.tables = SchemaAt[run.at]
  /\ run.at # run.target =>
       /\ run.done \in 0..Len(Step)
       /\ run.tables = After(Step, SchemaAt[run.at])[run.done]

CommittedInv == tables = SchemaAt[revision]

ChainInv == TypeInv /\ RunInv /\ CommittedInv

\* Every upgrade() and downgrade() is a finite list.
LEMMA StepLengths ==
  /\ Latest \in Nat
  /\ \A r \in 1..Latest : Len(Upgrades[r]) \in Nat /\ Len(Downgrades[r]) \in Nat
  <1>1. Latest = 6
    BY DEF Latest, Upgrades
  <1>2. /\ Len(Upgrades[1]) \in Nat /\ Len(Upgrades[2]) \in Nat /\ Len(Upgrades[3]) \in Nat
        /\ Len(Upgrades[4]) \in Nat /\ Len(Upgrades[5]) \in Nat /\ Len(Upgrades[6]) \in Nat
    BY DEF Upgrades, Phase1Upgrade, AttemptsUpgrade, ArchivedUpgrade, TasksUpgrade,
           GroupNameUpgrade, IdentityUpgrade
  <1>3. /\ Len(Downgrades[1]) \in Nat /\ Len(Downgrades[2]) \in Nat
        /\ Len(Downgrades[3]) \in Nat /\ Len(Downgrades[4]) \in Nat
        /\ Len(Downgrades[5]) \in Nat /\ Len(Downgrades[6]) \in Nat
    BY DEF Downgrades, Phase1Downgrade, AttemptsDowngrade, ArchivedDowngrade, TasksDowngrade,
           GroupNameDowngrade, IdentityDowngrade
  <1> QED
    BY <1>1, <1>2, <1>3

\* The step of a run that has not arrived is that of a revision.
LEMMA StepIsARevisions ==
  ASSUME TypeInv, run.at # run.target
  PROVE  /\ Len(Step) \in Nat
         /\ run.at < run.target =>
              /\ run.at + 1 \in 1..Latest
              /\ Step = Upgrades[run.at + 1]
         /\ ~ (run.at < run.target) =>
              /\ run.at \in 1..Latest
              /\ Step = Downgrades[run.at]
  <1>1. Latest \in Nat /\ run.at \in 0..Latest /\ run.target \in 0..Latest
    BY StepLengths DEF TypeInv, Revisions
  <1>2. CASE run.at < run.target
    <2>1. run.at + 1 \in 1..Latest
      BY <1>1, <1>2
    <2> QED
      BY <1>2, <2>1, StepLengths DEF Step
  <1>3. CASE ~ (run.at < run.target)
    <2>1. run.at \in 1..Latest
      BY <1>1, <1>3
    <2> QED
      BY <1>3, <2>1, StepLengths DEF Step
  <1> QED
    BY <1>2, <1>3

LEMMA ChainInit ==
  Init => ChainInv
  <1> SUFFICES ASSUME Init
               PROVE  ChainInv
    OBVIOUS
  <1>1. 0 \in Revisions /\ SchemaAt[0] = NoTables
    BY StepLengths, SchemaSteps DEF Revisions
  <1> QED
    BY <1>1 DEF Init, NoRun, ChainInv, TypeInv, RunInv, CommittedInv

LEMMA BeginStep ==
  ASSUME ChainInv, NEW target \in Revisions, NEW via \in Connections, Begin(target, via)
  PROVE  ChainInv'
  <1>1. run' = [target |-> target, at |-> revision, done |-> 0, via |-> via, tables |-> tables]
    BY DEF Begin
  <1>2. TypeInv' /\ CommittedInv'
    BY <1>1 DEF Begin, ChainInv, TypeInv, CommittedInv
  <1>3. run'.at # run'.target /\ run'.done = 0 /\ run'.tables = SchemaAt[run'.at]
    BY <1>1 DEF Begin, ChainInv, CommittedInv
  <1>4. (Len(Step) \in Nat)'
    <2>1. (TypeInv /\ run.at # run.target => Len(Step) \in Nat)'
      BY StepIsARevisions, PTL
    <2> QED
      BY <1>2, <1>3, <2>1
  <1>5. After(Step', SchemaAt[run'.at])[0] = SchemaAt[run'.at]
    BY <1>4, AfterSteps
  <1>6. RunInv'
    BY <1>3, <1>4, <1>5 DEF RunInv
  <1> QED
    BY <1>2, <1>6 DEF ChainInv

LEMMA ExecuteStep ==
  ASSUME ChainInv, Execute
  PROVE  ChainInv'
  <1> DEFINE done == run.done
             s == Step[done + 1]
  <1>1. run.at # run.target /\ done < Len(Step)
    BY DEF Execute
  <1>2. /\ Len(Step) \in Nat /\ done \in 0..Len(Step)
        /\ run.tables = After(Step, SchemaAt[run.at])[done]
    BY <1>1, StepIsARevisions DEF ChainInv, RunInv
  <1>3. /\ DOMAIN run' = DOMAIN run
        /\ run'.target = run.target /\ run'.at = run.at
        /\ run'.done = done + 1
        /\ run'.tables = Applied(s, run.tables)
    BY DEF Execute, ChainInv, TypeInv
  <1>4. Step' = Step
    BY <1>3 DEF Step
  <1>5. TypeInv' /\ CommittedInv'
    BY <1>3 DEF Execute, ChainInv, TypeInv, CommittedInv
  <1>6. After(Step, SchemaAt[run.at])[done + 1] = Applied(s, run.tables)
    <2>1. done + 1 \in 1..Len(Step) /\ (done + 1) - 1 = done
      BY <1>1, <1>2
    <2>2. After(Step, SchemaAt[run.at])[done + 1]
            = Applied(s, After(Step, SchemaAt[run.at])[(done + 1) - 1])
      BY <1>2, <2>1, AfterSteps
    <2> QED
      BY <1>2, <2>1, <2>2
  <1>7. RunInv'
    <2>1. done + 1 \in 0..Len(Step)
      BY <1>1, <1>2
    <2> QED
      BY <1>1, <1>3, <1>4, <1>6, <2>1 DEF RunInv
  <1> QED
    BY <1>5, <1>7 DEF ChainInv

\* A step executed to its end leaves the schema of the revision it goes to.
LEMMA StepArrives ==
  ASSUME TypeInv, run.at # run.target, NEW next,
         next = IF run.at < run.target THEN run.at + 1 ELSE run.at - 1
  PROVE  next \in Revisions /\ After(Step, SchemaAt[run.at])[Len(Step)] = SchemaAt[next]
  <1>1. Latest \in Nat /\ run.at \in 0..Latest /\ run.target \in 0..Latest
    BY StepLengths DEF TypeInv, Revisions
  <1>2. CASE run.at < run.target
    <2>1. next \in 1..Latest /\ next - 1 = run.at /\ next \in Revisions
      BY <1>1, <1>2 DEF Revisions
    <2>2. Step = Upgrades[next]
      BY <1>2, StepIsARevisions
    <2>3. SchemaAt[next] = After(Upgrades[next], SchemaAt[next - 1])[Len(Upgrades[next])]
      BY <2>1, SchemaSteps
    <2> QED
      BY <2>1, <2>2, <2>3
  <1>3. CASE ~ (run.at < run.target)
    <2>1. run.at \in 1..Latest /\ Step = Downgrades[run.at]
      BY <1>3, StepIsARevisions
    <2>2. next = run.at - 1 /\ next \in Revisions
      BY <1>1, <1>3, <2>1 DEF Revisions
    <2>3. After(Downgrades[run.at], SchemaAt[run.at])[Len(Downgrades[run.at])]
            = SchemaAt[run.at - 1]
      BY <2>1, DowngradesUndo
    <2> QED
      BY <2>1, <2>2, <2>3
  <1> QED
    BY <1>2, <1>3

LEMMA StampStep ==
  ASSUME ChainInv, Stamp
  PROVE  ChainInv'
  <1> DEFINE next == IF run.at < run.target THEN run.at + 1 ELSE run.at - 1
  <1>1. run.at # run.target /\ run.done = Len(Step)
    BY DEF Stamp
  <1>2. /\ DOMAIN run' = DOMAIN run
        /\ run'.target = run.target /\ run'.at = next
        /\ run'.done = 0
        /\ run'.tables = run.tables
    BY DEF Stamp, ChainInv, TypeInv
  <1>3. next \in Revisions /\ After(Step, SchemaAt[run.at])[Len(Step)] = SchemaAt[next]
    BY <1>1, StepArrives DEF ChainInv
  <1>4. run'.tables = SchemaAt[run'.at]
    BY <1>1, <1>2, <1>3 DEF ChainInv, RunInv
  <1>5. TypeInv' /\ CommittedInv'
    BY <1>2, <1>3 DEF Stamp, ChainInv, TypeInv, CommittedInv
  <1>6. CASE run'.at = run'.target
    BY <1>2, <1>4, <1>5, <1>6 DEF ChainInv, RunInv
  <1>7. CASE run'.at # run'.target
    <2>1. (Len(Step) \in Nat)'
      <3>1. (TypeInv /\ run.at # run.target => Len(Step) \in Nat)'
        BY StepIsARevisions, PTL
      <3> QED
        BY <1>5, <1>7, <3>1
    <2>2. After(Step', SchemaAt[run'.at])[0] = SchemaAt[run'.at]
      BY <2>1, AfterSteps
    <2> QED
      BY <1>2, <1>4, <1>5, <1>7, <2>1, <2>2 DEF ChainInv, RunInv
  <1> QED
    BY <1>6, <1>7

LEMMA EndStep ==
  ASSUME ChainInv, Commit \/ Rollback
  PROVE  ChainInv'
  <1>1. run' = NoRun /\ release' = release
    BY DEF Commit, Rollback
  <1>2. 0 \in Revisions /\ SchemaAt[0] = NoTables
    BY StepLengths, SchemaSteps DEF Revisions
  <1>3. CASE Commit
    <2>1. tables' = run.tables /\ revision' = run.target /\ run.at = run.target
      BY <1>3 DEF Commit
    <2>2. revision' \in Revisions /\ tables' = SchemaAt[revision']
      BY <2>1 DEF ChainInv, TypeInv, RunInv
    <2> QED
      BY <1>1, <1>2, <2>2 DEF NoRun, ChainInv, TypeInv, RunInv, CommittedInv
  <1>4. CASE Rollback
    <2>1. tables' = tables /\ revision' = revision
      BY <1>4 DEF Rollback
    <2> QED
      BY <1>1, <1>2, <2>1 DEF NoRun, ChainInv, TypeInv, RunInv, CommittedInv
  <1> QED
    BY <1>3, <1>4

\* The program leaves the schema and the run alone.
LEMMA TrafficStep ==
  ASSUME ChainInv, Traffic \/ UNCHANGED vars
  PROVE  ChainInv'
  <1>1. /\ run' = run /\ tables' = tables /\ revision' = revision
        /\ release' \in Revisions
    BY DEF Traffic, Deploy, InsertRow, InsertTwice, DeleteDuplicate, vars, ChainInv, TypeInv
  <1>2. Step' = Step
    BY <1>1 DEF Step
  <1> QED
    BY <1>1, <1>2 DEF ChainInv, TypeInv, RunInv, CommittedInv

\* A run of alembic, with the program's INSERTs before, during and after it, keeps ChainInv:
\* statements, stamps, commits and rollbacks, whichever way it goes and wherever it is cut.
THEOREM ChainInvariant == Spec => []ChainInv
  <1>1. ASSUME ChainInv, [Next]_vars
        PROVE  ChainInv'
    <2>1. CASE \E target \in Revisions, via \in Connections : Begin(target, via)
      BY <1>1, <2>1, BeginStep
    <2>2. CASE Execute
      BY <1>1, <2>2, ExecuteStep
    <2>3. CASE Stamp
      BY <1>1, <2>3, StampStep
    <2>4. CASE Commit \/ Rollback
      BY <1>1, <2>4, EndStep
    <2>5. CASE Traffic \/ UNCHANGED vars
      BY <1>1, <2>5, TrafficStep
    <2> QED
      BY <1>1, <2>1, <2>2, <2>3, <2>4, <2>5 DEF Next, Migrate
  <1> QED
    BY <1>1, ChainInit, PTL DEF Spec

\* The version that alembic reads at its next run is the schema it finds, and at the head the
\* schema is the ORM's, however many runs went up or down or were cut off before.
THEOREM SchemaAlwaysMatches == Spec => []SchemaMatchesRevision
  <1>1. ChainInv => SchemaMatchesRevision
    BY LatestIsTheModels DEF ChainInv, CommittedInv, SchemaMatchesRevision
  <1> QED
    BY <1>1, ChainInvariant, PTL

\* A release that still runs after a later revision has been applied can insert into every table
\* it knows: what the revision adds is nullable or has a default.
THEOREM ReleasesAlwaysInsert == Spec => []ReleasesKeepInserting
  <1>1. ASSUME ChainInv
        PROVE  ReleasesKeepInserting
    <2> SUFFICES ASSUME NEW name \in DOMAIN tables, release \in 1..revision,
                        name \in DOMAIN SchemaAt[release],
                        name = "provider_events" => release >= 2
                 PROVE  TakesInsert(tables[name], Supplied(release, name))
      BY DEF ReleasesKeepInserting
    <2>1. /\ Latest \in Nat /\ revision \in 0..Latest
          /\ tables = SchemaAt[revision]
      BY <1>1, StepLengths DEF ChainInv, TypeInv, CommittedInv, Revisions
    <2>2. release \in 1..Latest /\ revision \in release..Latest /\ revision \in 1..Latest
      BY <2>1
    <2>3. CASE name = "provider_events"
      <3>1. revision \in 2..Latest
        BY <2>2, <2>3
      <3> QED
        BY <2>1, <2>3, <3>1, RawInserts DEF Supplied
    <2>4. CASE name = "tasks"
      BY <2>1, <2>2, <2>4, RawInserts DEF Supplied
    <2>5. CASE name # "provider_events" /\ name # "tasks"
      <3>1. Grows(SchemaAt[release][name], SchemaAt[revision][name])
        BY <2>2, LaterExtends DEF Extends
      <3>2. Supplied(release, name) = Columns(SchemaAt[release][name])
        BY <2>5 DEF Supplied
      <3> QED
        BY <2>1, <3>1, <3>2 DEF Grows, TakesInsert, Columns
    <2> QED
      BY <2>3, <2>4, <2>5
  <1> QED
    BY <1>1, ChainInvariant, PTL
================================================================================
