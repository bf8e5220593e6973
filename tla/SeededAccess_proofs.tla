------------------------ MODULE SeededAccess_proofs ------------------------
(***************************************************************************)
(* Theorems about SeededAccess and their proofs.                           *)
(***************************************************************************)
EXTENDS SeededAccess, FiniteSetTheorems, TLAPS

-----------------------------------------------------------------------------
(* The statements of the script *)

Statements == [op : {"wipe", "create"}, tables : SUBSET Tables]

LEMMA WipedTables ==
  /\ DOMAIN Wiped = 1..39 /\ Len(Wiped) = 39
  /\ \A i \in 1..39 : Wiped[i] \in Tables
  /\ \A t \in Tables : \E i \in 1..39 : Wiped[i] = t
<1>1. DOMAIN Wiped = 1..39 /\ Len(Wiped) = 39
  BY DEF Wiped
<1>2. \A t \in Tables : \E i \in 1..39 : Wiped[i] = t
  BY DEF Wiped, Tables
<1>3. \A i \in 1..39 : Wiped[i] \in Tables
  BY DEF Wiped, Tables
<1> QED
  BY <1>1, <1>2, <1>3

\* A part of the script, with its number of statements.
Part(s, n) == s \in Seq(Statements) /\ Len(s) = n

LEMMA WipeAt ==
  /\ Part(Wipe, 39)
  /\ \A i \in 1..39 : Wipe[i] = [op |-> "wipe", tables |-> {Wiped[i]}]
<1>1. Wipe = [i \in 1..39 |-> [op |-> "wipe", tables |-> {Wiped[i]}]]
  BY WipedTables DEF Wipe, DeleteEach
<1>2. \A i \in 1..39 : [op |-> "wipe", tables |-> {Wiped[i]}] \in Statements
  BY WipedTables DEF Statements
<1> QED
  BY <1>1, <1>2 DEF Part

LEMMA Element ==
  ASSUME NEW n \in Nat, NEW s, Part(s, n)
  PROVE  \A i \in 1..n : s[i] \in Statements
<1>1. s \in [1..Len(s) -> Statements] /\ Len(s) = n
  BY DEF Part
<1> QED
  BY <1>1

\* Two parts, one after the other.
Joined(w, s, t) == w = s \o t

LEMMA After ==
  ASSUME NEW m \in Nat, NEW n \in Nat, NEW s, Part(s, m), NEW t, Part(t, n),
         NEW w, Joined(w, s, t)
  PROVE  /\ Part(w, m + n)
         /\ \A i \in 1..m : w[i] = s[i]
         /\ \A i \in 1..n : w[m + i] = t[i]
<1>1. s \in Seq(Statements) /\ Len(s) = m /\ t \in Seq(Statements) /\ Len(t) = n
  BY DEF Part
<1>2. s \o t \in Seq(Statements) /\ Len(s \o t) = m + n
  BY <1>1
<1>3. \A i \in 1..m : (s \o t)[i] = s[i]
  BY <1>1
<1>4. \A i \in 1..n : (s \o t)[m + i] = t[i]
  BY <1>1
<1> QED
  BY <1>2, <1>3, <1>4 DEF Part, Joined

\* A run of equal statements.
LEMMA Repeated ==
  ASSUME NEW n \in Nat, NEW c \in Statements
  PROVE  /\ Part([i \in 1..n |-> c], n)
         /\ \A i \in 1..n : [j \in 1..n |-> c][i] = c
BY DEF Part

LEMMA IdentityAt ==
  /\ Part(SeedIdentity, 34)
  /\ SeedIdentity[1] = Create({"permission"})
  /\ \A i \in 1..17 : SeedIdentity[1 + i] = Create({"permissionGroup", "groupPermission"})
  /\ \A i \in 1..8 : SeedIdentity[18 + i] = Create({"role", "rolePermissionGroup"})
  /\ \A i \in 1..8 : SeedIdentity[26 + i] = Create({"user", "userRole"})
<1> DEFINE p == <<Create({"permission"})>>
           g == [i \in 1..17 |-> Create({"permissionGroup", "groupPermission"})]
           r == [i \in 1..8 |-> Create({"role", "rolePermissionGroup"})]
           u == [i \in 1..8 |-> Create({"user", "userRole"})]
           pg == p \o g
           pgr == pg \o r
<1>1. DOMAIN GROUPS = 1..17 /\ DOMAIN ROLE_GROUPS = 1..8 /\ DOMAIN USERS = 1..8
  BY DEF GROUPS, ROLE_GROUPS, USERS
<1>2. Joined(pg, p, g) /\ Joined(pgr, pg, r) /\ Joined(SeedIdentity, pgr, u)
  BY <1>1 DEF SeedIdentity, Joined
<1>3. /\ Create({"permission"}) \in Statements
      /\ Create({"permissionGroup", "groupPermission"}) \in Statements
      /\ Create({"role", "rolePermissionGroup"}) \in Statements
      /\ Create({"user", "userRole"}) \in Statements
  BY DEF Create, Statements, Tables
<1>4. Part(p, 1) /\ p[1] = Create({"permission"})
  BY <1>3 DEF Part
<1>5. /\ Part(g, 17) /\ Part(r, 8) /\ Part(u, 8)
      /\ \A i \in 1..17 : g[i] = Create({"permissionGroup", "groupPermission"})
      /\ \A i \in 1..8 : r[i] = Create({"role", "rolePermissionGroup"})
      /\ \A i \in 1..8 : u[i] = Create({"user", "userRole"})
  BY <1>3, Repeated
<1> HIDE DEF p, g, r, u, pg, pgr
<1>6. /\ Part(pg, 1 + 17)
      /\ \A i \in 1..1 : pg[i] = p[i]
      /\ \A i \in 1..17 : pg[1 + i] = g[i]
  BY <1>2, <1>4, <1>5, After
<1>7. /\ Part(pgr, 18 + 8)
      /\ \A i \in 1..18 : pgr[i] = pg[i]
      /\ \A i \in 1..8 : pgr[18 + i] = r[i]
  BY <1>2, <1>5, <1>6, After
<1>8. /\ Part(SeedIdentity, 26 + 8)
      /\ \A i \in 1..26 : SeedIdentity[i] = pgr[i]
      /\ \A i \in 1..8 : SeedIdentity[26 + i] = u[i]
  BY <1>2, <1>5, <1>7, After
<1>9. \A i \in 1..18 : SeedIdentity[i] = pg[i]
  BY <1>7, <1>8
<1>10. SeedIdentity[1] = Create({"permission"})
  BY <1>4, <1>6, <1>9
<1>11. \A i \in 1..17 : SeedIdentity[1 + i] = Create({"permissionGroup", "groupPermission"})
  BY <1>5, <1>6, <1>9
<1>12. \A i \in 1..8 : SeedIdentity[18 + i] = Create({"role", "rolePermissionGroup"})
  BY <1>5, <1>7, <1>8
<1>13. \A i \in 1..8 : SeedIdentity[26 + i] = Create({"user", "userRole"})
  BY <1>5, <1>8
<1> QED
  BY <1>8, <1>10, <1>11, <1>12, <1>13

LEMMA DomainAt ==
  /\ Part(SeedDomainData, 26)
  /\ \A i \in 1..7 : SeedDomainData[i] = SeedCustomers[i]
  /\ \A i \in 1..7 : SeedDomainData[7 + i] = SeedLegal[i]
  /\ \A i \in 1..6 : SeedDomainData[14 + i] = SeedFinance[i]
  /\ \A i \in 1..6 : SeedDomainData[20 + i] = SeedCommunication[i]
<1> DEFINE cl == SeedCustomers \o SeedLegal
           clf == cl \o SeedFinance
<1>1. /\ Part(SeedCustomers, 7) /\ Part(SeedLegal, 7)
      /\ Part(SeedFinance, 6) /\ Part(SeedCommunication, 6)
  BY DEF SeedCustomers, SeedLegal, SeedFinance, SeedCommunication, Create, Statements, Tables, Part
<1>2. /\ Joined(cl, SeedCustomers, SeedLegal) /\ Joined(clf, cl, SeedFinance)
      /\ Joined(SeedDomainData, clf, SeedCommunication)
  BY DEF SeedDomainData, Joined
<1> HIDE DEF cl, clf
<1>3. /\ Part(cl, 7 + 7)
      /\ \A i \in 1..7 : cl[i] = SeedCustomers[i]
      /\ \A i \in 1..7 : cl[7 + i] = SeedLegal[i]
  BY <1>1, <1>2, After
<1>4. /\ Part(clf, 14 + 6)
      /\ \A i \in 1..14 : clf[i] = cl[i]
      /\ \A i \in 1..6 : clf[14 + i] = SeedFinance[i]
  BY <1>1, <1>2, <1>3, After
<1>5. /\ Part(SeedDomainData, 20 + 6)
      /\ \A i \in 1..20 : SeedDomainData[i] = clf[i]
      /\ \A i \in 1..6 : SeedDomainData[20 + i] = SeedCommunication[i]
  BY <1>1, <1>2, <1>4, After, SMTT(30)
<1>6. \A i \in 1..14 : SeedDomainData[i] = cl[i]
  BY <1>4, <1>5
<1>7. \A i \in 1..7 : SeedDomainData[i] = SeedCustomers[i]
  BY <1>3, <1>6
<1>8. \A i \in 1..7 : SeedDomainData[7 + i] = SeedLegal[i]
  BY <1>3, <1>6
<1>9. \A i \in 1..6 : SeedDomainData[14 + i] = SeedFinance[i]
  BY <1>4, <1>5
<1> QED
  BY <1>5, <1>7, <1>8, <1>9

LEMMA MainAt ==
  /\ Part(Main, 99)
  /\ \A i \in 1..39 : Main[i] = [op |-> "wipe", tables |-> {Wiped[i]}]
  /\ \A i \in 1..34 : Main[39 + i] = SeedIdentity[i]
  /\ \A i \in 1..26 : Main[73 + i] = SeedDomainData[i]
<1> DEFINE m == Wipe \o SeedIdentity
<1>0. Joined(m, Wipe, SeedIdentity)
  BY DEF Joined
<1>1. Joined(Main, m, SeedDomainData)
  BY DEF Main, Joined
<1> HIDE DEF m
<1>p. Part(Wipe, 39) /\ Part(SeedIdentity, 34) /\ Part(SeedDomainData, 26)
  BY WipeAt, IdentityAt, DomainAt
<1>2. /\ Part(m, 39 + 34)
      /\ \A i \in 1..39 : m[i] = Wipe[i]
      /\ \A i \in 1..34 : m[39 + i] = SeedIdentity[i]
  BY <1>0, <1>p, After, SMTT(30)
<1>3. /\ Part(Main, 73 + 26)
      /\ \A i \in 1..73 : Main[i] = m[i]
      /\ \A i \in 1..26 : Main[73 + i] = SeedDomainData[i]
  BY <1>1, <1>2, <1>p, After, SMTT(30)
<1>4. \A i \in 1..39 : Main[i] = [op |-> "wipe", tables |-> {Wiped[i]}]
  <2>1. \A i \in 1..39 : Main[i] = Wipe[i]
    BY <1>2, <1>3
  <2> QED
    BY <2>1, WipeAt
<1>5. \A i \in 1..34 : Main[39 + i] = SeedIdentity[i]
  BY <1>2, <1>3
<1> QED
  BY <1>3, <1>4, <1>5

\* What each statement after the wipe creates.
LEMMA CreatedAt ==
  /\ Main[40] = Create({"permission"})
  /\ \A i \in 41..57 : Main[i] = Create({"permissionGroup", "groupPermission"})
  /\ \A i \in 58..65 : Main[i] = Create({"role", "rolePermissionGroup"})
  /\ \A i \in 66..73 : Main[i] = Create({"user", "userRole"})
  /\ Main[74] = Create({"service"})
  /\ Main[75] = Create({"customer"})
  /\ Main[76] = Create({"customerFollower"})
  /\ Main[77] = Create({"lead"})
  /\ Main[78] = Create({"contact"})
  /\ Main[79] = Create({"note"})
  /\ Main[80] = Create({"activity"})
  /\ Main[81] = Create({"collaborator"})
  /\ Main[82] = Create({"collaboratorCustomer"})
  /\ Main[83] = Create({"contractRequest"})
  /\ Main[84] = Create({"contract"})
  /\ Main[85] = Create({"workflowTemplate", "workflowStage", "stageRequirement"})
  /\ Main[86] = Create({"workflowInstance"})
  /\ Main[87] = Create({"task"})
  /\ Main[88] = Create({"order"})
  /\ Main[89] = Create({"paymentSchedule", "paymentScheduleLine"})
  /\ Main[90] = Create({"payment"})
  /\ Main[91] = Create({"vatInvoice"})
  /\ Main[92] = Create({"expense"})
  /\ Main[93] = Create({"commission"})
  /\ Main[94] = Create({"documentMetadata"})
  /\ Main[95] = Create({"notification"})
  /\ Main[96] = Create({"reminder"})
  /\ Main[97] = Create({"outboundEmailLog"})
  /\ Main[98] = Create({"emailTemplate"})
  /\ Main[99] = Create({"appConfig"})
<1>1. Main[40] = Create({"permission"})
  <2>1. Main[39 + 1] = SeedIdentity[1]
    BY MainAt
  <2> QED
    BY <2>1, IdentityAt
<1>2. \A i \in 41..57 : Main[i] = Create({"permissionGroup", "groupPermission"})
  <2>1. \A i \in 1..17 : Main[39 + (1 + i)] = Create({"permissionGroup", "groupPermission"})
    BY MainAt, IdentityAt
  <2> SUFFICES ASSUME NEW i \in 41..57
               PROVE  Main[i] = Create({"permissionGroup", "groupPermission"})
    OBVIOUS
  <2>2. i - 40 \in 1..17 /\ 39 + (1 + (i - 40)) = i
    OBVIOUS
  <2> QED
    BY <2>1, <2>2
<1>3. \A i \in 58..65 : Main[i] = Create({"role", "rolePermissionGroup"})
  <2>1. \A i \in 1..8 : Main[39 + (18 + i)] = Create({"role", "rolePermissionGroup"})
    BY MainAt, IdentityAt
  <2> SUFFICES ASSUME NEW i \in 58..65
               PROVE  Main[i] = Create({"role", "rolePermissionGroup"})
    OBVIOUS
  <2>2. i - 57 \in 1..8 /\ 39 + (18 + (i - 57)) = i
    OBVIOUS
  <2> QED
    BY <2>1, <2>2
<1>4. \A i \in 66..73 : Main[i] = Create({"user", "userRole"})
  <2>1. \A i \in 1..8 : Main[39 + (26 + i)] = Create({"user", "userRole"})
    BY MainAt, IdentityAt
  <2> SUFFICES ASSUME NEW i \in 66..73
               PROVE  Main[i] = Create({"user", "userRole"})
    OBVIOUS
  <2>2. i - 65 \in 1..8 /\ 39 + (26 + (i - 65)) = i
    OBVIOUS
  <2> QED
    BY <2>1, <2>2
<1>5. /\ Main[74] = Create({"service"})
      /\ Main[75] = Create({"customer"})
      /\ Main[76] = Create({"customerFollower"})
      /\ Main[77] = Create({"lead"})
      /\ Main[78] = Create({"contact"})
      /\ Main[79] = Create({"note"})
      /\ Main[80] = Create({"activity"})
  <2>1. \A i \in 1..7 : Main[73 + i] = SeedCustomers[i]
    BY MainAt, DomainAt
  <2>2. /\ Main[74] = SeedCustomers[1]
        /\ Main[75] = SeedCustomers[2]
        /\ Main[76] = SeedCustomers[3]
        /\ Main[77] = SeedCustomers[4]
        /\ Main[78] = SeedCustomers[5]
        /\ Main[79] = SeedCustomers[6]
        /\ Main[80] = SeedCustomers[7]
    BY <2>1
  <2> QED
    BY <2>2 DEF SeedCustomers
<1>6. /\ Main[81] = Create({"collaborator"})
      /\ Main[82] = Create({"collaboratorCustomer"})
      /\ Main[83] = Create({"contractRequest"})
      /\ Main[84] = Create({"contract"})
      /\ Main[85] = Create({"workflowTemplate", "workflowStage", "stageRequirement"})
      /\ Main[86] = Create({"workflowInstance"})
      /\ Main[87] = Create({"task"})
  <2>1. \A i \in 1..7 : Main[73 + (7 + i)] = SeedLegal[i]
    BY MainAt, DomainAt
  <2>2. /\ Main[81] = SeedLegal[1]
        /\ Main[82] = SeedLegal[2]
        /\ Main[83] = SeedLegal[3]
        /\ Main[84] = SeedLegal[4]
        /\ Main[85] = SeedLegal[5]
        /\ Main[86] = SeedLegal[6]
        /\ Main[87] = SeedLegal[7]
    BY <2>1
  <2> QED
    BY <2>2 DEF SeedLegal
<1>7. /\ Main[88] = Create({"order"})
      /\ Main[89] = Create({"paymentSchedule", "paymentScheduleLine"})
      /\ Main[90] = Create({"payment"})
      /\ Main[91] = Create({"vatInvoice"})
      /\ Main[92] = Create({"expense"})
      /\ Main[93] = Create({"commission"})
  <2>1. \A i \in 1..6 : Main[73 + (14 + i)] = SeedFinance[i]
    BY MainAt, DomainAt
  <2>2. /\ Main[88] = SeedFinance[1]
        /\ Main[89] = SeedFinance[2]
        /\ Main[90] = SeedFinance[3]
        /\ Main[91] = SeedFinance[4]
        /\ Main[92] = SeedFinance[5]
        /\ Main[93] = SeedFinance[6]
    BY <2>1
  <2> QED
    BY <2>2 DEF SeedFinance
<1>8. /\ Main[94] = Create({"documentMetadata"})
      /\ Main[95] = Create({"notification"})
      /\ Main[96] = Create({"reminder"})
      /\ Main[97] = Create({"outboundEmailLog"})
      /\ Main[98] = Create({"emailTemplate"})
      /\ Main[99] = Create({"appConfig"})
  <2>1. \A i \in 1..6 : Main[73 + (20 + i)] = SeedCommunication[i]
    BY MainAt, DomainAt
  <2>2. /\ Main[94] = SeedCommunication[1]
        /\ Main[95] = SeedCommunication[2]
        /\ Main[96] = SeedCommunication[3]
        /\ Main[97] = SeedCommunication[4]
        /\ Main[98] = SeedCommunication[5]
        /\ Main[99] = SeedCommunication[6]
    BY <2>1
  <2> QED
    BY <2>2 DEF SeedCommunication
<1> QED
  BY <1>1, <1>2, <1>3, <1>4, <1>5, <1>6, <1>7, <1>8

LEMMA MainSteps ==
  /\ Len(Main) = 99 /\ DOMAIN Main = 1..99
  /\ \A i \in 1..39 : Main[i].op = "wipe" /\ Main[i].tables = {Wiped[i]}
  /\ \A i \in 40..99 : Main[i].op = "create" /\ Main[i].tables \subseteq Tables
<1>1. Main \in Seq(Statements) /\ Len(Main) = 99
  BY MainAt DEF Part
<1>d. DOMAIN Main = 1..99
  BY <1>1
<1>3. \A i \in 1..39 : Main[i].op = "wipe" /\ Main[i].tables = {Wiped[i]}
  BY MainAt
<1>4. \A i \in 40..99 : Main[i].op = "create"
  <2>1. \A tables : Create(tables).op = "create"
    BY DEF Create
  <2>2. ASSUME NEW i \in 40..99
        PROVE  i \in 41..57 \/ i \in 58..65 \/ i \in 66..73 \/ i = 40 \/ i \in 74..86 \/ i \in 87..99
    OBVIOUS
  <2>3. \A i \in 74..86 : Main[i].op = "create"
    BY <2>1, CreatedAt
  <2>4. \A i \in 87..99 : Main[i].op = "create"
    BY <2>1, CreatedAt
  <2>5. Main[40].op = "create" /\ \A i \in 41..57 : Main[i].op = "create"
    BY <2>1, CreatedAt
  <2>6. (\A i \in 58..65 : Main[i].op = "create") /\ \A i \in 66..73 : Main[i].op = "create"
    BY <2>1, CreatedAt
  <2> QED
    BY <2>2, <2>3, <2>4, <2>5, <2>6, SMTT(30)
<1>5. ASSUME NEW i \in 40..99 PROVE Main[i].tables \subseteq Tables
  <2>1. Main[i] \in Statements
    BY MainAt, Element
  <2> QED
    BY <2>1 DEF Statements
<1> QED
  BY <1>1, <1>d, <1>3, <1>4, <1>5

-----------------------------------------------------------------------------
(* The order of the statements *)

\* The columns, table by table.
LEMMA MustColumns ==
  /\ DOMAIN MustRefer = {"userRole", "rolePermissionGroup", "groupPermission", "customer",
       "customerFollower", "importRow", "collaboratorCustomer", "contractRequest", "contract",
       "workflowStage", "stageRequirement", "workflowInstance", "task", "order",
       "paymentSchedule", "paymentScheduleLine", "payment", "vatInvoice", "expense",
       "commission"}
  /\ MustRefer["userRole"] = {"user", "role"}
  /\ MustRefer["rolePermissionGroup"] = {"role", "permissionGroup"}
  /\ MustRefer["groupPermission"] = {"permissionGroup", "permission"}
  /\ MustRefer["customer"] = {"user"}
  /\ MustRefer["customerFollower"] = {"customer", "user"}
  /\ MustRefer["importRow"] = {"importBatch"}
  /\ MustRefer["collaboratorCustomer"] = {"collaborator"}
  /\ MustRefer["contractRequest"] = {"collaborator"}
  /\ MustRefer["contract"] = {"customer"}
  /\ MustRefer["workflowStage"] = {"workflowTemplate"}
  /\ MustRefer["stageRequirement"] = {"workflowStage"}
  /\ MustRefer["workflowInstance"] = {"contract", "workflowTemplate", "workflowStage"}
  /\ MustRefer["task"] = {"contract"}
  /\ MustRefer["order"] = {"contract", "service"}
  /\ MustRefer["paymentSchedule"] = {"order"}
  /\ MustRefer["paymentScheduleLine"] = {"paymentSchedule"}
  /\ MustRefer["payment"] = {"order"}
  /\ MustRefer["vatInvoice"] = {"order"}
  /\ MustRefer["expense"] = {"order"}
  /\ MustRefer["commission"] = {"order"}
BY DEF MustRefer

LEMMA MayColumns ==
  /\ DOMAIN MayRefer = {"lead", "contact", "task", "documentMetadata", "order", "payment",
       "vatInvoice", "commission", "outboundEmailLog"}
  /\ MayRefer["lead"] = {"user", "customer"}
  /\ MayRefer["contact"] = {"customer", "lead"}
  /\ MayRefer["task"] = {"workflowInstance"}
  /\ MayRefer["documentMetadata"] = {"contract", "order"}
  /\ MayRefer["order"] = {"collaborator"}
  /\ MayRefer["payment"] = {"paymentScheduleLine"}
  /\ MayRefer["vatInvoice"] = {"payment"}
  /\ MayRefer["commission"] = {"payment", "collaborator"}
  /\ MayRefer["outboundEmailLog"] = {"notification"}
BY DEF MayRefer

\* A row refers by a column of a table that the statement inserts into.
LEMMA ByColumn ==
  ASSUME NEW tables, NEW u \in References(tables)
  PROVE  /\ u \notin tables
         /\ \E t \in tables : \/ t \in DOMAIN MustRefer /\ u \in MustRefer[t]
                              \/ t \in DOMAIN MayRefer /\ u \in MayRefer[t]
<1>1. u \notin tables /\ u \in UNION {Of(MustRefer, t) \cup Of(MayRefer, t) : t \in tables}
  BY DEF References
<1>2. PICK t \in tables : u \in Of(MustRefer, t) \/ u \in Of(MayRefer, t)
  BY <1>1
<1>3. u \in Of(MustRefer, t) => t \in DOMAIN MustRefer /\ u \in MustRefer[t]
  BY DEF Of
<1>4. u \in Of(MayRefer, t) => t \in DOMAIN MayRefer /\ u \in MayRefer[t]
  BY DEF Of
<1> QED
  BY <1>1, <1>2, <1>3, <1>4

\* The wipe goes from the rows that refer to those that are referred to.
LEMMA ChildrenFirst ==
  \A i \in 1..39 : \A u \in DOMAIN MustRefer :
    Wiped[i] \in MustRefer[u] => \E j \in 1..i - 1 : Wiped[j] = u
<1>1. /\ Wiped[1] = "outboundEmailLog" /\ Wiped[2] = "userNotificationPreference" /\ Wiped[3] = "emailTemplate"
      /\ Wiped[4] = "reminder" /\ Wiped[5] = "notification" /\ Wiped[6] = "commission"
      /\ Wiped[7] = "expense" /\ Wiped[8] = "vatInvoice" /\ Wiped[9] = "payment"
      /\ Wiped[10] = "paymentScheduleLine" /\ Wiped[11] = "paymentSchedule" /\ Wiped[12] = "documentMetadata"
      /\ Wiped[13] = "task" /\ Wiped[14] = "workflowInstance" /\ Wiped[15] = "stageRequirement"
      /\ Wiped[16] = "workflowStage" /\ Wiped[17] = "workflowTemplate" /\ Wiped[18] = "order"
      /\ Wiped[19] = "contract" /\ Wiped[20] = "contractRequest" /\ Wiped[21] = "collaboratorCustomer"
      /\ Wiped[22] = "collaborator" /\ Wiped[23] = "service" /\ Wiped[24] = "importRow"
      /\ Wiped[25] = "importBatch" /\ Wiped[26] = "activity" /\ Wiped[27] = "note"
      /\ Wiped[28] = "customerFollower" /\ Wiped[29] = "contact" /\ Wiped[30] = "lead"
      /\ Wiped[31] = "customer" /\ Wiped[32] = "groupPermission" /\ Wiped[33] = "rolePermissionGroup"
      /\ Wiped[34] = "userRole" /\ Wiped[35] = "permission" /\ Wiped[36] = "permissionGroup"
      /\ Wiped[37] = "role" /\ Wiped[38] = "user" /\ Wiped[39] = "appConfig"
  BY DEF Wiped
<1>2. SUFFICES ASSUME NEW i \in 1..39, NEW u \in DOMAIN MustRefer, Wiped[i] \in MustRefer[u]
             PROVE  \E j \in 1..i - 1 : Wiped[j] = u
  OBVIOUS
<1> QED
  BY <1>1, <1>2, MustColumns

\* A row is created after the rows it refers to.
LEMMA ParentsFirst ==
  \A i \in 40..99 : \A t \in References(Main[i].tables) :
    \E j \in 40..i - 1 : t \in Main[j].tables
<1>1. /\ "permission" \in Main[40].tables
      /\ "permissionGroup" \in Main[41].tables
      /\ "role" \in Main[58].tables
      /\ "user" \in Main[66].tables
      /\ "service" \in Main[74].tables
      /\ "customer" \in Main[75].tables
      /\ "lead" \in Main[77].tables
      /\ "collaborator" \in Main[81].tables
      /\ "contract" \in Main[84].tables
      /\ "workflowTemplate" \in Main[85].tables
      /\ "workflowStage" \in Main[85].tables
      /\ "workflowInstance" \in Main[86].tables
      /\ "order" \in Main[88].tables
      /\ "paymentScheduleLine" \in Main[89].tables
      /\ "payment" \in Main[90].tables
      /\ "notification" \in Main[95].tables
  BY CreatedAt, SMTT(30) DEF Create
<1>2. \A tables : Create(tables).tables = tables
  BY DEF Create
<1> SUFFICES ASSUME NEW i \in 40..99, NEW t \in References(Main[i].tables)
             PROVE  \E j \in 40..i - 1 : t \in Main[j].tables
  OBVIOUS
<1>3. CASE i \in 40..73
  <2>1. References({"permission"}) \subseteq {}
    BY ByColumn, MustColumns, MayColumns
  <2>2. References({"permissionGroup", "groupPermission"}) \subseteq {"permission"}
    BY ByColumn, MustColumns, MayColumns
  <2>3. References({"role", "rolePermissionGroup"}) \subseteq {"permissionGroup"}
    BY ByColumn, MustColumns, MayColumns
  <2>4. References({"user", "userRole"}) \subseteq {"role"}
    BY ByColumn, MustColumns, MayColumns
  <2> QED
    BY <1>1, <1>2, <1>3, <2>1, <2>2, <2>3, <2>4, CreatedAt
<1>4. CASE i \in 74..80
  <2>1. References({"service"}) \subseteq {}
    BY ByColumn, MustColumns, MayColumns
  <2>2. References({"customer"}) \subseteq {"user"}
    BY ByColumn, MustColumns, MayColumns
  <2>3. References({"customerFollower"}) \subseteq {"customer", "user"}
    BY ByColumn, MustColumns, MayColumns
  <2>4. References({"lead"}) \subseteq {"user", "customer"}
    BY ByColumn, MustColumns, MayColumns
  <2>5. References({"contact"}) \subseteq {"customer", "lead"}
    BY ByColumn, MustColumns, MayColumns
  <2>6. References({"note"}) \subseteq {}
    BY ByColumn, MustColumns, MayColumns
  <2>7. References({"activity"}) \subseteq {}
    BY ByColumn, MustColumns, MayColumns
  <2> QED
    BY <1>1, <1>2, <1>4, <2>1, <2>2, <2>3, <2>4, <2>5, <2>6, <2>7, CreatedAt
<1>5. CASE i \in 81..87
  <2>1. References({"collaborator"}) \subseteq {}
    BY ByColumn, MustColumns, MayColumns
  <2>2. References({"collaboratorCustomer"}) \subseteq {"collaborator"}
    BY ByColumn, MustColumns, MayColumns
  <2>3. References({"contractRequest"}) \subseteq {"collaborator"}
    BY ByColumn, MustColumns, MayColumns
  <2>4. References({"contract"}) \subseteq {"customer"}
    BY ByColumn, MustColumns, MayColumns
  <2>5. References({"workflowTemplate", "workflowStage", "stageRequirement"}) \subseteq {}
    BY ByColumn, MustColumns, MayColumns
  <2>6. References({"workflowInstance"}) \subseteq {"contract", "workflowTemplate", "workflowStage"}
    BY ByColumn, MustColumns, MayColumns
  <2>7. References({"task"}) \subseteq {"contract", "workflowInstance"}
    BY ByColumn, MustColumns, MayColumns
  <2> QED
    BY <1>1, <1>2, <1>5, <2>1, <2>2, <2>3, <2>4, <2>5, <2>6, <2>7, CreatedAt
<1>6. CASE i \in 88..93
  <2>1. References({"order"}) \subseteq {"contract", "service", "collaborator"}
    BY ByColumn, MustColumns, MayColumns
  <2>2. References({"paymentSchedule", "paymentScheduleLine"}) \subseteq {"order"}
    BY ByColumn, MustColumns, MayColumns
  <2>3. References({"payment"}) \subseteq {"order", "paymentScheduleLine"}
    BY ByColumn, MustColumns, MayColumns
  <2>4. References({"vatInvoice"}) \subseteq {"order", "payment"}
    BY ByColumn, MustColumns, MayColumns
  <2>5. References({"expense"}) \subseteq {"order"}
    BY ByColumn, MustColumns, MayColumns
  <2>6. References({"commission"}) \subseteq {"order", "payment", "collaborator"}
    BY ByColumn, MustColumns, MayColumns
  <2> QED
    BY <1>1, <1>2, <1>6, <2>1, <2>2, <2>3, <2>4, <2>5, <2>6, CreatedAt
<1>7. CASE i \in 94..99
  <2>1. References({"documentMetadata"}) \subseteq {"contract", "order"}
    BY ByColumn, MustColumns, MayColumns
  <2>2. References({"notification"}) \subseteq {}
    BY ByColumn, MustColumns, MayColumns
  <2>3. References({"reminder"}) \subseteq {}
    BY ByColumn, MustColumns, MayColumns
  <2>4. References({"outboundEmailLog"}) \subseteq {"notification"}
    BY ByColumn, MustColumns, MayColumns
  <2>5. References({"emailTemplate"}) \subseteq {}
    BY ByColumn, MustColumns, MayColumns
  <2>6. References({"appConfig"}) \subseteq {}
    BY ByColumn, MustColumns, MayColumns
  <2> QED
    BY <1>1, <1>2, <1>7, <2>1, <2>2, <2>3, <2>4, <2>5, <2>6, CreatedAt
<1> QED
  BY <1>3, <1>4, <1>5, <1>6, <1>7

-----------------------------------------------------------------------------
(* What has been created before a statement *)

\* The statements before the n-th that insert into t.
Made(n, t) == {i \in 1..n - 1 : Main[i].op = "create" /\ t \in Main[i].tables}

LEMMA MadeIsFinite ==
  ASSUME NEW n \in Nat, NEW t
  PROVE  IsFiniteSet(Made(n, t)) /\ Cardinality(Made(n, t)) \in Nat
<1>1. Made(n, t) \subseteq 1..n - 1
  BY DEF Made
<1>2. IsFiniteSet(1..n - 1)
  BY FS_Interval
<1> QED
  BY <1>1, <1>2, FS_Subset, FS_CardinalityType

\* A turn of the script creates in a table at most as often as all of it.
LEMMA MadeAtMost ==
  ASSUME NEW n \in 1..100, NEW t
  PROVE  Cardinality(Made(n, t)) <= Cardinality(Made(100, t))
<1>1. Made(n, t) \subseteq Made(100, t)
  BY DEF Made
<1> QED
  BY <1>1, MadeIsFinite, FS_Subset

LEMMA NothingMade ==
  ASSUME NEW n \in 1..40, NEW t
  PROVE  Cardinality(Made(n, t)) = 0
<1>1. \A i \in 1..39 : Main[i].op # "create"
  BY MainSteps
<1>2. Made(n, t) = {}
  BY <1>1, SMTT(30) DEF Made
<1> QED
  BY <1>2, FS_EmptySet

LEMMA MadeNext ==
  ASSUME NEW n \in 40..99, NEW t
  PROVE  Cardinality(Made(n + 1, t)) =
           IF t \in Main[n].tables THEN Cardinality(Made(n, t)) + 1 ELSE Cardinality(Made(n, t))
<1>1. Main[n].op = "create"
  BY MainSteps
<1>2. CASE t \in Main[n].tables
  <2>1. Made(n + 1, t) = Made(n, t) \cup {n}
    BY <1>1, <1>2 DEF Made
  <2>2. n \notin Made(n, t)
    BY DEF Made
  <2> QED
    BY <1>2, <2>1, <2>2, MadeIsFinite, FS_AddElement
<1>3. CASE t \notin Main[n].tables
  <2>1. Made(n + 1, t) = Made(n, t)
    BY <1>3 DEF Made
  <2> QED
    BY <1>3, <2>1
<1> QED
  BY <1>2, <1>3

LEMMA MadeSome ==
  ASSUME NEW n \in 40..100, NEW j \in 40..n - 1, NEW t \in Main[j].tables
  PROVE  Cardinality(Made(n, t)) > 0
<1>0. j \in 40..99 /\ j \in 1..n - 1
  OBVIOUS
<1>op. Main[j].op = "create"
  BY <1>0, MainSteps
<1>1. j \in Made(n, t)
  BY <1>0, <1>op DEF Made
<1>2. Cardinality(Made(n, t)) # 0
  BY <1>1, MadeIsFinite, FS_EmptySet
<1> QED
  BY <1>2, MadeIsFinite

LEMMA SeedCounts ==
  /\ SeedCount \in [Tables -> Nat]
  /\ \A t \in Tables : SeedCount[t] = Cardinality(Made(100, t))
<1>1. \A t : {i \in DOMAIN Main : Main[i].op = "create" /\ t \in Main[i].tables} = Made(100, t)
  BY MainSteps DEF Made
<1>2. \A t \in Tables : SeedCount[t] = Cardinality(Made(100, t))
  BY <1>1 DEF SeedCount
<1>3. \A t : Cardinality(Made(100, t)) \in Nat
  BY MadeIsFinite
<1> QED
  BY <1>1, <1>2, <1>3 DEF SeedCount

LEMMA CreatedIsMade ==
  ASSUME script.next \in 1..100
  PROVE  \A t : CreatedSoFar(t) = Cardinality(Made(script.next, t))
BY DEF CreatedSoFar, Made

-----------------------------------------------------------------------------
(* The invariant *)

\* The run has wiped t.
Gone(t) == \E i \in 1..39 : i < script.next /\ Wiped[i] = t

\* The script creates what the n-th statement expects: in a table that this run
\* has wiped are its own rows and, while no request interferes, all of them and
\* no others.
OwnRows ==
  script.status = "running" =>
    \A t \in Tables : Gone(t) =>
      /\ db[t] = Cardinality(Made(script.next, t))
      /\ interfered = "no" => t \notin app /\ t \notin lost

\* Strong enough to be kept by every step.
SeedInv ==
  /\ TypeOK
  /\ OwnRows
  /\ OnlyInterferenceStopsTheSeed
  /\ CompleteSeedIsWhole

\* The tables whose rows of the script requests may take.
Losable == DOMAIN Removing \cup DOMAIN Replacing \cup {"user"}

LEMMA TouchedTables ==
  /\ DOMAIN Inserting \cup DOMAIN Replacing \subseteq Tables
  /\ Losable \subseteq Tables
<1>1. DOMAIN Inserting \subseteq Tables
  BY DEF Inserting, Tables
<1>2. DOMAIN Replacing \subseteq Tables
  BY DEF Replacing, Tables
<1>3. DOMAIN Removing \subseteq Tables /\ "user" \in Tables
  BY DEF Removing, Tables
<1> QED
  BY <1>1, <1>2, <1>3 DEF Losable

LEMMA ReferringTables == DOMAIN MustRefer \subseteq Tables
BY MustColumns DEF Tables

\* After the wipe all tables are gone through.
LEMMA AllGone ==
  ASSUME script.next \in 40..100
  PROVE  \A t \in Tables : Gone(t)
BY WipedTables DEF Gone

\* Which statement the script is at.
LEMMA AtStatement ==
  ASSUME TypeOK
  PROVE  /\ script.next \in 1..100
         /\ Running => script.next \in 1..99
         /\ Running /\ Statement.op = "wipe" =>
              script.next \in 1..39 /\ Statement.tables = {Wiped[script.next]}
         /\ Running /\ Statement.op = "create" =>
              script.next \in 40..99 /\ Statement.tables \subseteq Tables
<1>1. script.next \in 1..100
  BY MainSteps DEF TypeOK
<1>2. Running => script.next \in 1..99
  BY <1>1, MainSteps DEF Running
<1>3. ASSUME Running, Statement.op = "wipe"
      PROVE  script.next \in 1..39 /\ Statement.tables = {Wiped[script.next]}
  <2>1. script.next \in 40..99 => Main[script.next].op = "create"
    BY MainSteps
  <2>2. script.next \in 1..39
    BY <1>2, <1>3, <2>1 DEF Statement
  <2>3. Main[script.next].tables = {Wiped[script.next]}
    BY <2>2, MainSteps
  <2> QED
    BY <2>2, <2>3 DEF Statement
<1>4. ASSUME Running, Statement.op = "create"
      PROVE  script.next \in 40..99 /\ Statement.tables \subseteq Tables
  <2>1. script.next \in 1..39 => Main[script.next].op = "wipe"
    BY MainSteps
  <2>2. script.next \in 40..99
    BY <1>2, <1>4, <2>1 DEF Statement
  <2>3. Main[script.next].tables \subseteq Tables
    BY <2>2, MainSteps
  <2> QED
    BY <2>2, <2>3 DEF Statement
<1> QED
  BY <1>1, <1>2, <1>3, <1>4

LEMMA InitInv == Init => SeedInv
<1> SUFFICES ASSUME Init PROVE SeedInv
  OBVIOUS
<1>1. TypeOK
  <2>1. \A t \in Tables : SeedCount[t] \in Nat
    BY SeedCounts
  <2>2. db \in [Tables -> Nat] /\ \A t \in Tables : db[t] <= SeedCount[t]
    BY <2>1 DEF Init
  <2>3. script \in [status : {"ready", "running", "failed", "complete"}, next : 1..Len(Main) + 1]
    BY MainSteps DEF Init
  <2>4. app = {} /\ lost = {}
    BY DEF Init
  <2> QED
    BY <2>2, <2>3, <2>4 DEF Init, TypeOK
<1> QED
  BY <1>1 DEF Init, SeedInv, OwnRows, OnlyInterferenceStopsTheSeed, CompleteSeedIsWhole

LEMMA StartInv == SeedInv /\ Start => SeedInv'
<1> SUFFICES ASSUME SeedInv, Start PROVE SeedInv'
  OBVIOUS
<1>1. TypeOK'
  BY MainSteps DEF SeedInv, TypeOK, Created, Start
<1>2. OwnRows'
  BY DEF OwnRows, Gone, Start
<1> QED
  BY <1>1, <1>2 DEF SeedInv, Start, OnlyInterferenceStopsTheSeed, CompleteSeedIsWhole

LEMMA WipeTableInv == SeedInv /\ WipeTable => SeedInv'
<1> SUFFICES ASSUME SeedInv, WipeTable PROVE SeedInv'
  OBVIOUS
<1> DEFINE n == script.next
<1>1. TypeOK
  BY DEF SeedInv
<1>2. n \in 1..39 /\ Statement.tables = {Wiped[n]}
  BY <1>1, AtStatement, SMTT(30) DEF WipeTable
<1>3. /\ script.status = "running" /\ script'.status = "running" /\ script'.next = n + 1
      /\ script' \in [status : {"ready", "running", "failed", "complete"}, next : 1..Len(Main) + 1]
  BY <1>1, <1>2, MainSteps, SMTT(30) DEF WipeTable, Running, Advanced, TypeOK
<1>4. /\ db' \in [Tables -> Nat]
      /\ \A t \in Tables : db'[t] = IF t = Wiped[n] THEN 0 ELSE db[t]
  BY <1>1, <1>2 DEF WipeTable, TypeOK
<1>5. /\ app' = app \ {Wiped[n]} /\ lost' = lost \ {Wiped[n]}
      /\ warm' = warm /\ interfered' = interfered
  BY <1>2 DEF WipeTable
<1>6. TypeOK'
  <2>1. ASSUME NEW t \in Tables PROVE db'[t] <= SeedCount[t]
    <3>1. db[t] <= SeedCount[t] /\ SeedCount[t] \in Nat
      BY <1>1, SeedCounts DEF TypeOK
    <3> QED
      BY <1>4, <3>1
  <2>2. lost' \subseteq Created' \cap Losable
    <3>1. lost \subseteq Created \cap Losable
      BY <1>1 DEF TypeOK, Losable
    <3> QED
      BY <1>4, <1>5, <3>1 DEF Created
  <2> QED
    BY <1>1, <1>3, <1>4, <1>5, <2>1, <2>2 DEF TypeOK, Losable
<1>7. OwnRows'
  <2> SUFFICES ASSUME NEW t \in Tables, NEW i \in 1..39, i < n + 1, Wiped[i] = t
               PROVE  /\ db'[t] = Cardinality(Made(n + 1, t))
                      /\ interfered' = "no" => t \notin app' /\ t \notin lost'
    BY <1>3 DEF OwnRows, Gone, Made
  <2>1. Cardinality(Made(n, t)) = 0 /\ Cardinality(Made(n + 1, t)) = 0
    BY <1>2, NothingMade
  <2>2. CASE t = Wiped[n]
    BY <1>4, <1>5, <2>1, <2>2
  <2>3. CASE t # Wiped[n]
    <3>1. Gone(t)
      BY <1>2, <2>3 DEF Gone
    <3>2. /\ db[t] = Cardinality(Made(n, t))
          /\ interfered = "no" => t \notin app /\ t \notin lost
      BY <1>3, <3>1 DEF SeedInv, OwnRows
    <3> QED
      BY <1>4, <1>5, <2>1, <2>3, <3>2
  <2> QED
    BY <2>2, <2>3
<1> QED
  BY <1>3, <1>6, <1>7 DEF SeedInv, OnlyInterferenceStopsTheSeed, CompleteSeedIsWhole

LEMMA CreateRowsInv == SeedInv /\ CreateRows => SeedInv'
<1> SUFFICES ASSUME SeedInv, CreateRows PROVE SeedInv'
  OBVIOUS
<1> DEFINE n == script.next
<1>1. TypeOK
  BY DEF SeedInv
<1>2. n \in 40..99 /\ Statement.tables \subseteq Tables
  BY <1>1, AtStatement, SMTT(30) DEF CreateRows
<1>3. /\ script.status = "running" /\ script'.status = "running" /\ script'.next = n + 1
      /\ script' \in [status : {"ready", "running", "failed", "complete"}, next : 1..Len(Main) + 1]
  BY <1>1, <1>2, MainSteps, SMTT(30) DEF CreateRows, Running, Advanced, TypeOK
<1>4. /\ db' \in [Tables -> Nat]
      /\ \A t \in Tables : db'[t] = IF t \in Main[n].tables THEN db[t] + 1 ELSE db[t]
  BY <1>1, <1>2 DEF CreateRows, TypeOK, Statement
<1>5. app' = app /\ lost' = lost /\ warm' = warm /\ interfered' = interfered
  BY DEF CreateRows
<1>6. \A t \in Tables : /\ db[t] = Cardinality(Made(n, t))
                        /\ interfered = "no" => t \notin app /\ t \notin lost
  BY <1>2, <1>3, AllGone DEF SeedInv, OwnRows
<1>7. \A t \in Tables : db'[t] = Cardinality(Made(n + 1, t))
  BY <1>2, <1>4, <1>6, MadeNext
<1>8. TypeOK'
  <2>1. \A t \in Tables : db'[t] <= SeedCount[t]
    BY <1>2, <1>7, MadeAtMost, SeedCounts
  <2>2. Created \subseteq Created'
    BY <1>1, <1>4 DEF Created, TypeOK
  <2>3. lost' \subseteq Created' \cap Losable
    BY <1>1, <1>5, <2>2 DEF TypeOK, Losable
  <2> QED
    BY <1>1, <1>3, <1>4, <1>5, <2>1, <2>3 DEF TypeOK, Losable
<1>9. OwnRows'
  BY <1>3, <1>5, <1>6, <1>7 DEF OwnRows, Made
<1> QED
  BY <1>3, <1>8, <1>9 DEF SeedInv, OnlyInterferenceStopsTheSeed, CompleteSeedIsWhole

\* A statement is refused only for what requests have written in between.
LEMMA StatementFailsInv == SeedInv /\ StatementFails => SeedInv'
<1> SUFFICES ASSUME SeedInv, StatementFails PROVE SeedInv'
  OBVIOUS
<1> DEFINE n == script.next
<1>1. TypeOK
  BY DEF SeedInv
<1>2. Running /\ script.status = "running" /\ n \in 1..99 /\ script'.status = "failed"
  BY <1>1, AtStatement DEF StatementFails, Running, TypeOK
<1>3. UNCHANGED <<db, app, lost, warm, interfered>>
  BY DEF StatementFails
<1>4. TypeOK'
  BY <1>1, <1>3 DEF StatementFails, TypeOK, Created
<1>5. ASSUME interfered = "no" PROVE FALSE
  <2>1. CASE Statement.op = "wipe"
    <3>1. n \in 1..39 /\ Statement.tables = {Wiped[n]}
      BY <1>1, <1>2, <2>1, AtStatement
    <3>2. PICK u \in Nonempty : Wiped[n] \in Of(MustRefer, u)
      BY <2>1, <3>1 DEF StatementFails, Referring
    <3>3. u \in DOMAIN MustRefer /\ Wiped[n] \in MustRefer[u]
      BY <3>2 DEF Of
    <3>4. Gone(u) /\ u \in Tables
      BY <3>1, <3>3, ChildrenFirst, ReferringTables DEF Gone
    <3>5. db[u] = Cardinality(Made(n, u)) /\ u \notin app
      BY <1>2, <1>5, <3>4 DEF SeedInv, OwnRows
    <3>6. db[u] = 0
      BY <3>1, <3>5, NothingMade
    <3> QED
      BY <3>2, <3>5, <3>6 DEF Nonempty, Created
  <2>2. CASE Statement.op = "create"
    <3>1. n \in 40..99 /\ Statement.tables \subseteq Tables
      BY <1>1, <1>2, <2>2, AtStatement
    <3>2. \A t \in Tables : db[t] = Cardinality(Made(n, t)) /\ t \notin app /\ t \notin lost
      BY <1>2, <1>5, <3>1, AllGone DEF SeedInv, OwnRows
    <3>3. ASSUME NEW t \in References(Statement.tables) PROVE db[t] # 0 /\ t \notin lost
      <4>1. PICK j \in 40..n - 1 : t \in Main[j].tables
        BY <3>1, ParentsFirst DEF Statement
      <4>2. t \in Tables
        <5>1. j \in 40..99
          BY <3>1
        <5> QED
          BY <4>1, <5>1, MainSteps, SMTT(30)
      <4>3. Cardinality(Made(n, t)) > 0
        <5>1. n \in 40..100
          BY <3>1
        <5> QED
          BY <4>1, <5>1, MadeSome
      <4>4. db[t] = Cardinality(Made(n, t))
        BY <3>2, <4>2
      <4>5. t \notin lost
        BY <3>2, <4>2
      <4> QED
        BY <4>3, <4>4, <4>5, SMTT(30)
    <3>4. \A t \in Statement.tables : db[t] = CreatedSoFar(t)
      BY <3>1, <3>2, CreatedIsMade
    <3>5. Statement.tables \cap app = {}
      BY <3>1, <3>2
    <3> QED
      BY <2>2, <3>3, <3>4, <3>5 DEF StatementFails
  <2> QED
    BY <2>1, <2>2 DEF StatementFails
<1>6. interfered' = "yes"
  BY <1>1, <1>3, <1>5 DEF TypeOK
<1> QED
  BY <1>2, <1>4, <1>6 DEF SeedInv, OwnRows, OnlyInterferenceStopsTheSeed, CompleteSeedIsWhole

LEMMA FinishInv == SeedInv /\ Finish => SeedInv'
<1> SUFFICES ASSUME SeedInv, Finish PROVE SeedInv'
  OBVIOUS
<1>1. TypeOK
  BY DEF SeedInv
<1>2. script.status = "running" /\ script.next = 100 /\ script'.status = "complete"
  BY MainSteps DEF Finish
<1>3. UNCHANGED <<db, app, lost, warm, interfered>>
  BY DEF Finish
<1>4. TypeOK'
  BY <1>1, <1>3 DEF Finish, TypeOK, Created
<1>5. \A t \in Tables : /\ db[t] = Cardinality(Made(100, t))
                        /\ interfered = "no" => t \notin app /\ t \notin lost
  BY <1>2, AllGone DEF SeedInv, OwnRows
<1>6. \A t \in Tables \ lost : db[t] = SeedCount[t]
  BY <1>5, SeedCounts
<1>7. interfered = "no" => app = {} /\ lost = {}
  BY <1>1, <1>5, TouchedTables DEF TypeOK, Losable
<1> QED
  BY <1>2, <1>3, <1>4, <1>6, <1>7
     DEF SeedInv, OwnRows, OnlyInterferenceStopsTheSeed, CompleteSeedIsWhole

LEMMA KilledInv == SeedInv /\ Killed => SeedInv'
<1> SUFFICES ASSUME SeedInv, Killed PROVE SeedInv'
  OBVIOUS
<1>1. TypeOK'
  BY MainSteps DEF SeedInv, TypeOK, Created, Killed
<1>2. script'.status = "ready"
  BY DEF SeedInv, TypeOK, Killed
<1> QED
  BY <1>1, <1>2 DEF SeedInv, OwnRows, OnlyInterferenceStopsTheSeed, CompleteSeedIsWhole

\* A request marks the run as interfered with, and takes rows of the script
\* only where the script has created some.
LEMMA LeavesInv ==
  ASSUME SeedInv, NEW rows, NEW gone, Leaves(rows, gone),
         rows \subseteq DOMAIN Inserting \cup DOMAIN Replacing,
         lost \subseteq gone, gone \subseteq lost \cup (Created \cap Losable)
  PROVE  SeedInv'
<1>1. /\ app' = rows /\ lost' = gone /\ interfered' = "yes"
      /\ UNCHANGED <<db, script, warm>>
  BY DEF Leaves
<1>2. TypeOK
  BY DEF SeedInv
<1>3. lost' \subseteq Created' \cap Losable
  BY <1>1, <1>2 DEF TypeOK, Created, Losable
<1>4. TypeOK'
  BY <1>1, <1>2, <1>3 DEF TypeOK, Losable
<1>5. OwnRows'
  BY <1>1 DEF SeedInv, OwnRows, Gone, Made
<1>6. CompleteSeedIsWhole'
  BY <1>1 DEF SeedInv, CompleteSeedIsWhole
<1> QED
  BY <1>1, <1>4, <1>5, <1>6 DEF SeedInv, OnlyInterferenceStopsTheSeed

LEMMA RequestInv == SeedInv /\ Request => SeedInv'
<1> SUFFICES ASSUME SeedInv, Request PROVE SeedInv'
  OBVIOUS
<1>1. app \subseteq DOMAIN Inserting \cup DOMAIN Replacing
  BY DEF SeedInv, TypeOK
<1>2. PICK callable : \/ Insert(callable) \/ DeleteRow(callable)
                      \/ ReplaceRows(callable) \/ BlockUser(callable)
  BY DEF Request
<1>3. CASE Insert(callable)
  <2>1. PICK t \in DOMAIN Inserting : Leaves(app \cup {t}, lost)
    BY <1>3 DEF Insert
  <2> QED
    BY <1>1, <2>1, LeavesInv
<1>4. CASE DeleteRow(callable)
  <2>1. PICK t \in DOMAIN Removing :
          \/ Leaves(app \ {t}, lost)
          \/ t \in Created /\ Leaves(app, lost \cup {t})
    BY <1>4 DEF DeleteRow
  <2>2. t \in Losable
    BY DEF Losable
  <2>3. CASE Leaves(app \ {t}, lost)
    BY <1>1, <2>3, LeavesInv
  <2>4. CASE t \in Created /\ Leaves(app, lost \cup {t})
    BY <1>1, <2>2, <2>4, LeavesInv
  <2> QED
    BY <2>1, <2>3, <2>4
<1>5. CASE ReplaceRows(callable)
  <2>0. PICK t \in DOMAIN Replacing : \E gone \in SUBSET (Created \cap {t}) :
          \/ Leaves(app \ {t}, lost \cup gone)
          \/ Leaves(app \cup {t}, lost \cup gone)
    BY <1>5 DEF ReplaceRows
  <2>1. PICK gone \in SUBSET (Created \cap {t}) :
          \/ Leaves(app \ {t}, lost \cup gone)
          \/ Leaves(app \cup {t}, lost \cup gone)
    BY <2>0
  <2>2. t \in Losable
    BY DEF Losable
  <2>3. CASE Leaves(app \ {t}, lost \cup gone)
    BY <1>1, <2>2, <2>3, LeavesInv
  <2>4. CASE Leaves(app \cup {t}, lost \cup gone)
    BY <1>1, <2>2, <2>4, LeavesInv
  <2> QED
    BY <2>1, <2>3, <2>4
<1>6. CASE BlockUser(callable)
  <2>1. "user" \in Created /\ Leaves(app, lost \cup {"user"})
    BY <1>6 DEF BlockUser
  <2>2. "user" \in Losable
    BY DEF Losable
  <2> QED
    BY <1>1, <2>1, <2>2, LeavesInv
<1> QED
  BY <1>2, <1>3, <1>4, <1>5, <1>6

LEMMA NextInv == SeedInv /\ [Next]_vars => SeedInv'
<1> SUFFICES ASSUME SeedInv, [Next]_vars PROVE SeedInv'
  OBVIOUS
<1>1. CASE Remember \/ Forget
  <2>1. UNCHANGED <<db, app, lost, script, interfered>> /\ warm' \in {"yes", "no"}
    BY <1>1 DEF Remember, Forget
  <2> QED
    BY <2>1 DEF SeedInv, TypeOK, Created, OwnRows, Gone, Made, OnlyInterferenceStopsTheSeed, CompleteSeedIsWhole
<1>2. CASE UNCHANGED vars
  BY <1>2 DEF vars, SeedInv, TypeOK, Created, OwnRows, Gone, Made, OnlyInterferenceStopsTheSeed, CompleteSeedIsWhole
<1> QED
  BY <1>1, <1>2, StartInv, WipeTableInv, CreateRowsInv, StatementFailsInv, FinishInv, KilledInv,
     RequestInv DEF Next

LEMMA Invariance == Spec => []SeedInv
<1> QED
  BY InitInv, NextInv, PTL DEF Spec

\* Every table holds some number of the script's rows, never more than a
\* whole seed, and the script stands at one of its statements.
THEOREM TypeCorrect == Spec => []TypeOK
<1>1. SeedInv => TypeOK
  BY DEF SeedInv
<1> QED
  BY <1>1, Invariance, PTL

\* From whatever killed runs and requests have left, a run that no request
\* interferes with has no statement refused: wipe deletes the rows that refer
\* to a table before its own, and main creates those it refers to first.
THEOREM OnlyInterferenceStops == Spec => []OnlyInterferenceStopsTheSeed
<1>1. SeedInv => OnlyInterferenceStopsTheSeed
  BY DEF SeedInv
<1> QED
  BY <1>1, Invariance, PTL

\* A run that gets through leaves every row of the seed once, however often
\* earlier runs were cut off, but for rows that requests have taken since; one
\* that no request interferes with leaves all of them and nothing else.
THEOREM CompleteIsWhole == Spec => []CompleteSeedIsWhole
<1>1. SeedInv => CompleteSeedIsWhole
  BY DEF SeedInv
<1> QED
  BY <1>1, Invariance, PTL

-----------------------------------------------------------------------------
(* Who holds what after the seed *)

\* The routes' permissions by the group that grants them.
IdentityCodes == {"user.manage", "role.manage", "permission.manage"}
SystemCodes == {"notification.view_own", "email.template.manage", "config.manage"}
CrmCodes == {"customer.create", "customer.view", "customer.update", "customer.delete",
  "lead.create", "lead.view", "lead.update", "lead.delete", "lead.convert",
  "contact.create", "contact.view", "contact.update", "contact.delete", "lead.import"}
ServicesCodes == {"service.create", "service.view", "service.update", "service.archive"}
LegalCodes == {"contract.create", "contract.view", "contract.update", "contract.delete",
  "contract.change_status", "workflow_template.manage", "task.create", "task.view",
  "task.update", "document.upload"}
FinanceCodes == {"order.create", "order.view", "order.update", "order.assign",
  "order.change_stage", "order.approve", "payment.create", "payment.view",
  "payment.verify", "payment.void", "vat.create", "vat.view", "vat.issue", "vat.cancel",
  "expense.create", "expense.view", "expense.approve", "commission.calculate",
  "commission.view", "commission.approve", "commission.pay"}
CollaborationCodes == {"collaborator.create", "collaborator.view", "collaborator.update",
  "collaborator.deactivate", "collaborator_customer.assign", "contract_request.view",
  "contract_request.review", "contract_request.approve", "contract_request.reject"}
PortalCodes == {"contract_request.create"}

\* The seed creates what each of these groups lists: no code is misspelt.
LEMMA IdentityListed == IdentityCodes \subseteq CodesOf(GROUPS[1])
<1>1. /\ DOMAIN GROUPS[1].permissions = 1..3
      /\ GROUPS[1].permissions[1] = "user.manage"
      /\ GROUPS[1].permissions[2] = "role.manage"
      /\ GROUPS[1].permissions[3] = "permission.manage"
  BY DEF GROUPS
<1>2. /\ DOMAIN ALL_PERMISSIONS = 1..70
      /\ ALL_PERMISSIONS[65] = "user.manage"
      /\ ALL_PERMISSIONS[66] = "role.manage"
      /\ ALL_PERMISSIONS[67] = "permission.manage"
  BY DEF ALL_PERMISSIONS
<1>3. IdentityCodes \subseteq ToSet(GROUPS[1].permissions)
  BY <1>1 DEF IdentityCodes, ToSet
<1>4. IdentityCodes \subseteq ToSet(ALL_PERMISSIONS)
  BY <1>2 DEF IdentityCodes, ToSet
<1> QED
  BY <1>3, <1>4 DEF CodesOf

LEMMA SystemListed == SystemCodes \subseteq CodesOf(GROUPS[2])
<1>1. /\ DOMAIN GROUPS[2].permissions = 1..3
      /\ GROUPS[2].permissions[2] = "notification.view_own"
      /\ GROUPS[2].permissions[3] = "email.template.manage"
      /\ GROUPS[2].permissions[1] = "config.manage"
  BY DEF GROUPS
<1>2. /\ DOMAIN ALL_PERMISSIONS = 1..70
      /\ ALL_PERMISSIONS[68] = "notification.view_own"
      /\ ALL_PERMISSIONS[69] = "email.template.manage"
      /\ ALL_PERMISSIONS[70] = "config.manage"
  BY DEF ALL_PERMISSIONS
<1>3. SystemCodes \subseteq ToSet(GROUPS[2].permissions)
  BY <1>1 DEF SystemCodes, ToSet
<1>4. SystemCodes \subseteq ToSet(ALL_PERMISSIONS)
  BY <1>2 DEF SystemCodes, ToSet
<1> QED
  BY <1>3, <1>4 DEF CodesOf

LEMMA CrmListed == CrmCodes \subseteq CodesOf(GROUPS[3])
<1>1. /\ DOMAIN GROUPS[3].permissions = 1..18
      /\ GROUPS[3].permissions[2] = "customer.create"
      /\ GROUPS[3].permissions[1] = "customer.view"
      /\ GROUPS[3].permissions[3] = "customer.update"
      /\ GROUPS[3].permissions[4] = "customer.delete"
      /\ GROUPS[3].permissions[9] = "lead.create"
      /\ GROUPS[3].permissions[8] = "lead.view"
      /\ GROUPS[3].permissions[10] = "lead.update"
      /\ GROUPS[3].permissions[11] = "lead.delete"
      /\ GROUPS[3].permissions[13] = "lead.convert"
      /\ GROUPS[3].permissions[16] = "contact.create"
      /\ GROUPS[3].permissions[15] = "contact.view"
      /\ GROUPS[3].permissions[17] = "contact.update"
      /\ GROUPS[3].permissions[18] = "contact.delete"
      /\ GROUPS[3].permissions[14] = "lead.import"
  BY DEF GROUPS
<1>2. /\ DOMAIN ALL_PERMISSIONS = 1..70
      /\ ALL_PERMISSIONS[2] = "customer.create"
      /\ ALL_PERMISSIONS[1] = "customer.view"
      /\ ALL_PERMISSIONS[3] = "customer.update"
      /\ ALL_PERMISSIONS[4] = "customer.delete"
      /\ ALL_PERMISSIONS[9] = "lead.create"
      /\ ALL_PERMISSIONS[8] = "lead.view"
      /\ ALL_PERMISSIONS[10] = "lead.update"
      /\ ALL_PERMISSIONS[11] = "lead.delete"
      /\ ALL_PERMISSIONS[13] = "lead.convert"
      /\ ALL_PERMISSIONS[16] = "contact.create"
      /\ ALL_PERMISSIONS[15] = "contact.view"
      /\ ALL_PERMISSIONS[17] = "contact.update"
      /\ ALL_PERMISSIONS[18] = "contact.delete"
      /\ ALL_PERMISSIONS[14] = "lead.import"
  BY DEF ALL_PERMISSIONS
<1>3. CrmCodes \subseteq ToSet(GROUPS[3].permissions)
  BY <1>1 DEF CrmCodes, ToSet
<1>4. CrmCodes \subseteq ToSet(ALL_PERMISSIONS)
  BY <1>2 DEF CrmCodes, ToSet
<1> QED
  BY <1>3, <1>4 DEF CodesOf

LEMMA ServicesListed == ServicesCodes \subseteq CodesOf(GROUPS[7])
<1>1. /\ DOMAIN GROUPS[7].permissions = 1..4
      /\ GROUPS[7].permissions[2] = "service.create"
      /\ GROUPS[7].permissions[1] = "service.view"
      /\ GROUPS[7].permissions[3] = "service.update"
      /\ GROUPS[7].permissions[4] = "service.archive"
  BY DEF GROUPS
<1>2. /\ DOMAIN ALL_PERMISSIONS = 1..70
      /\ ALL_PERMISSIONS[20] = "service.create"
      /\ ALL_PERMISSIONS[19] = "service.view"
      /\ ALL_PERMISSIONS[21] = "service.update"
      /\ ALL_PERMISSIONS[22] = "service.archive"
  BY DEF ALL_PERMISSIONS
<1>3. ServicesCodes \subseteq ToSet(GROUPS[7].permissions)
  BY <1>1 DEF ServicesCodes, ToSet
<1>4. ServicesCodes \subseteq ToSet(ALL_PERMISSIONS)
  BY <1>2 DEF ServicesCodes, ToSet
<1> QED
  BY <1>3, <1>4 DEF CodesOf

LEMMA LegalListed == LegalCodes \subseteq CodesOf(GROUPS[8])
<1>1. /\ DOMAIN GROUPS[8].permissions = 1..10
      /\ GROUPS[8].permissions[2] = "contract.create"
      /\ GROUPS[8].permissions[1] = "contract.view"
      /\ GROUPS[8].permissions[3] = "contract.update"
      /\ GROUPS[8].permissions[4] = "contract.delete"
      /\ GROUPS[8].permissions[5] = "contract.change_status"
      /\ GROUPS[8].permissions[6] = "workflow_template.manage"
      /\ GROUPS[8].permissions[8] = "task.create"
      /\ GROUPS[8].permissions[7] = "task.view"
      /\ GROUPS[8].permissions[9] = "task.update"
      /\ GROUPS[8].permissions[10] = "document.upload"
  BY DEF GROUPS
<1>2. /\ DOMAIN ALL_PERMISSIONS = 1..70
      /\ ALL_PERMISSIONS[24] = "contract.create"
      /\ ALL_PERMISSIONS[23] = "contract.view"
      /\ ALL_PERMISSIONS[25] = "contract.update"
      /\ ALL_PERMISSIONS[26] = "contract.delete"
      /\ ALL_PERMISSIONS[27] = "contract.change_status"
      /\ ALL_PERMISSIONS[28] = "workflow_template.manage"
      /\ ALL_PERMISSIONS[30] = "task.create"
      /\ ALL_PERMISSIONS[29] = "task.view"
      /\ ALL_PERMISSIONS[31] = "task.update"
      /\ ALL_PERMISSIONS[32] = "document.upload"
  BY DEF ALL_PERMISSIONS
<1>3. LegalCodes \subseteq ToSet(GROUPS[8].permissions)
  BY <1>1 DEF LegalCodes, ToSet
<1>4. LegalCodes \subseteq ToSet(ALL_PERMISSIONS)
  BY <1>2 DEF LegalCodes, ToSet
<1> QED
  BY <1>3, <1>4 DEF CodesOf

LEMMA FinanceListed == FinanceCodes \subseteq CodesOf(GROUPS[11])
<1>1. /\ DOMAIN GROUPS[11].permissions = 1..22
      /\ GROUPS[11].permissions[2] = "order.create"
      /\ GROUPS[11].permissions[1] = "order.view"
      /\ GROUPS[11].permissions[3] = "order.update"
      /\ GROUPS[11].permissions[5] = "order.assign"
      /\ GROUPS[11].permissions[6] = "order.change_stage"
      /\ GROUPS[11].permissions[7] = "order.approve"
      /\ GROUPS[11].permissions[9] = "payment.create"
      /\ GROUPS[11].permissions[8] = "payment.view"
      /\ GROUPS[11].permissions[10] = "payment.verify"
      /\ GROUPS[11].permissions[11] = "payment.void"
      /\ GROUPS[11].permissions[13] = "vat.create"
      /\ GROUPS[11].permissions[12] = "vat.view"
      /\ GROUPS[11].permissions[14] = "vat.issue"
      /\ GROUPS[11].permissions[15] = "vat.cancel"
      /\ GROUPS[11].permissions[17] = "expense.create"
      /\ GROUPS[11].permissions[16] = "expense.view"
      /\ GROUPS[11].permissions[18] = "expense.approve"
      /\ GROUPS[11].permissions[20] = "commission.calculate"
      /\ GROUPS[11].permissions[19] = "commission.view"
      /\ GROUPS[11].permissions[21] = "commission.approve"
      /\ GROUPS[11].permissions[22] = "commission.pay"
  BY DEF GROUPS
<1>2. /\ DOMAIN ALL_PERMISSIONS = 1..70
      /\ ALL_PERMISSIONS[34] = "order.create"
      /\ ALL_PERMISSIONS[33] = "order.view"
      /\ ALL_PERMISSIONS[35] = "order.update"
      /\ ALL_PERMISSIONS[37] = "order.assign"
      /\ ALL_PERMISSIONS[38] = "order.change_stage"
      /\ ALL_PERMISSIONS[39] = "order.approve"
      /\ ALL_PERMISSIONS[41] = "payment.create"
      /\ ALL_PERMISSIONS[40] = "payment.view"
      /\ ALL_PERMISSIONS[42] = "payment.verify"
      /\ ALL_PERMISSIONS[43] = "payment.void"
      /\ ALL_PERMISSIONS[45] = "vat.create"
      /\ ALL_PERMISSIONS[44] = "vat.view"
      /\ ALL_PERMISSIONS[46] = "vat.issue"
      /\ ALL_PERMISSIONS[47] = "vat.cancel"
      /\ ALL_PERMISSIONS[49] = "expense.create"
      /\ ALL_PERMISSIONS[48] = "expense.view"
      /\ ALL_PERMISSIONS[50] = "expense.approve"
      /\ ALL_PERMISSIONS[52] = "commission.calculate"
      /\ ALL_PERMISSIONS[51] = "commission.view"
      /\ ALL_PERMISSIONS[53] = "commission.approve"
      /\ ALL_PERMISSIONS[54] = "commission.pay"
  BY DEF ALL_PERMISSIONS
<1>3. FinanceCodes \subseteq ToSet(GROUPS[11].permissions)
  BY <1>1 DEF FinanceCodes, ToSet
<1>4. FinanceCodes \subseteq ToSet(ALL_PERMISSIONS)
  BY <1>2 DEF FinanceCodes, ToSet
<1> QED
  BY <1>3, <1>4 DEF CodesOf

LEMMA CollaborationListed == CollaborationCodes \subseteq CodesOf(GROUPS[15])
<1>1. /\ DOMAIN GROUPS[15].permissions = 1..10
      /\ GROUPS[15].permissions[2] = "collaborator.create"
      /\ GROUPS[15].permissions[1] = "collaborator.view"
      /\ GROUPS[15].permissions[3] = "collaborator.update"
      /\ GROUPS[15].permissions[4] = "collaborator.deactivate"
      /\ GROUPS[15].permissions[9] = "collaborator_customer.assign"
      /\ GROUPS[15].permissions[5] = "contract_request.view"
      /\ GROUPS[15].permissions[6] = "contract_request.review"
      /\ GROUPS[15].permissions[7] = "contract_request.approve"
      /\ GROUPS[15].permissions[8] = "contract_request.reject"
  BY DEF GROUPS
<1>2. /\ DOMAIN ALL_PERMISSIONS = 1..70
      /\ ALL_PERMISSIONS[56] = "collaborator.create"
      /\ ALL_PERMISSIONS[55] = "collaborator.view"
      /\ ALL_PERMISSIONS[57] = "collaborator.update"
      /\ ALL_PERMISSIONS[58] = "collaborator.deactivate"
      /\ ALL_PERMISSIONS[64] = "collaborator_customer.assign"
      /\ ALL_PERMISSIONS[60] = "contract_request.view"
      /\ ALL_PERMISSIONS[61] = "contract_request.review"
      /\ ALL_PERMISSIONS[62] = "contract_request.approve"
      /\ ALL_PERMISSIONS[63] = "contract_request.reject"
  BY DEF ALL_PERMISSIONS
<1>3. CollaborationCodes \subseteq ToSet(GROUPS[15].permissions)
  BY <1>1 DEF CollaborationCodes, ToSet
<1>4. CollaborationCodes \subseteq ToSet(ALL_PERMISSIONS)
  BY <1>2 DEF CollaborationCodes, ToSet
<1> QED
  BY <1>3, <1>4 DEF CodesOf

LEMMA PortalListed == PortalCodes \subseteq CodesOf(GROUPS[16])
<1>1. /\ DOMAIN GROUPS[16].permissions = 1..5
      /\ GROUPS[16].permissions[2] = "contract_request.create"
  BY DEF GROUPS
<1>2. /\ DOMAIN ALL_PERMISSIONS = 1..70
      /\ ALL_PERMISSIONS[59] = "contract_request.create"
  BY DEF ALL_PERMISSIONS
<1>3. PortalCodes \subseteq ToSet(GROUPS[16].permissions)
  BY <1>1 DEF PortalCodes, ToSet
<1>4. PortalCodes \subseteq ToSet(ALL_PERMISSIONS)
  BY <1>2 DEF PortalCodes, ToSet
<1> QED
  BY <1>3, <1>4 DEF CodesOf

\* How many of each the seed creates, at least.
LEMMA SeedReaches ==
  /\ 7 <= SeedCount["userRole"]
  /\ 8 <= SeedCount["rolePermissionGroup"]
  /\ 17 <= SeedCount["groupPermission"]
<1>1. \A tables : Create(tables).tables = tables
  BY DEF Create
<1>2. /\ \A i \in 41..57 : "groupPermission" \in Main[i].tables
      /\ \A i \in 58..65 : "rolePermissionGroup" \in Main[i].tables
      /\ \A i \in 66..73 : "userRole" \in Main[i].tables
  BY <1>1, CreatedAt
<1>3. \A i \in 41..73 : i \in 1..99 /\ Main[i].op = "create"
  BY MainSteps
<1>4. /\ 41..57 \subseteq Made(100, "groupPermission")
      /\ 58..65 \subseteq Made(100, "rolePermissionGroup")
      /\ 66..73 \subseteq Made(100, "userRole")
  BY <1>2, <1>3 DEF Made
<1>5. /\ Cardinality(41..57) = 57 - 41 + 1
      /\ Cardinality(58..65) = 65 - 58 + 1
      /\ Cardinality(66..73) = 73 - 66 + 1
  <2>1. ASSUME NEW a \in Int, NEW b \in Int, a <= b
        PROVE  Cardinality(a..b) = b - a + 1
    BY <2>1, FS_Interval
  <2>2. {41, 57, 58, 65, 66, 73} \subseteq Int /\ 41 <= 57 /\ 58 <= 65 /\ 66 <= 73
    OBVIOUS
  <2> QED
    BY <2>1, <2>2, Zenon
<1>6. ASSUME NEW t, NEW S \in SUBSET Made(100, t)
      PROVE  Cardinality(S) <= Cardinality(Made(100, t))
  <2>1. IsFiniteSet(Made(100, t))
    BY MadeIsFinite
  <2> QED
    BY <1>6, <2>1, FS_Subset
<1>7. Cardinality(41..57) <= Cardinality(Made(100, "groupPermission"))
  BY <1>4, <1>6
<1>8. Cardinality(58..65) <= Cardinality(Made(100, "rolePermissionGroup"))
  BY <1>4, <1>6
<1>9. Cardinality(66..73) <= Cardinality(Made(100, "userRole"))
  BY <1>4, <1>6
<1>10. "groupPermission" \in Tables /\ "rolePermissionGroup" \in Tables /\ "userRole" \in Tables
  BY DEF Tables
<1> QED
  BY <1>5, <1>7, <1>8, <1>9, <1>10, SeedCounts

\* The i-th user is active and has the r-th role, whose k-th group is the j-th.
Leads(i, r, k, j) ==
  /\ i \in 1..7 /\ USERS[i].status = "ACTIVE"
  /\ r \in 1..8 /\ ROLE_GROUPS[r].code = USERS[i].role
  /\ k \in DOMAIN ROLE_GROUPS[r].groups /\ j \in 1..17
  /\ ROLE_GROUPS[r].groups[k] = GROUPS[j].code

LEMMA Holds ==
  ASSUME NEW i, NEW r, NEW k, NEW j, Leads(i, r, k, j)
  PROVE  CodesOf(GROUPS[j]) \subseteq Granted(SeedCount)
<1>1. /\ i \in 1..SeedCount["userRole"] /\ r \in 1..SeedCount["rolePermissionGroup"]
      /\ j \in 1..SeedCount["groupPermission"]
  <2>1. SeedCount["userRole"] \in Nat /\ SeedCount["rolePermissionGroup"] \in Nat /\ SeedCount["groupPermission"] \in Nat
    BY SeedCounts DEF Tables
  <2> QED
    BY <2>1, SeedReaches DEF Leads
<1>2. i \in ActiveUsers(SeedCount)
  BY <1>1 DEF ActiveUsers, Leads
<1>3. GROUPS[j].code \in ToSet(ROLE_GROUPS[r].groups)
  BY DEF ToSet, Leads
<1>4. GROUPS[j].code \in UNION {ToSet(ROLE_GROUPS[s].groups) :
        s \in {s \in 1..SeedCount["rolePermissionGroup"] : ROLE_GROUPS[s].code = USERS[i].role}}
  BY <1>1, <1>3 DEF Leads
<1>5. CodesOf(GROUPS[j]) \subseteq GrantedTo(i, SeedCount)
  BY <1>1, <1>4 DEF GrantedTo
<1> QED
  BY <1>2, <1>5 DEF Granted

LEMMA AllGranted ==
  /\ IdentityCodes \subseteq Granted(SeedCount)
  /\ SystemCodes \subseteq Granted(SeedCount)
  /\ CrmCodes \subseteq Granted(SeedCount)
  /\ ServicesCodes \subseteq Granted(SeedCount)
  /\ LegalCodes \subseteq Granted(SeedCount)
  /\ FinanceCodes \subseteq Granted(SeedCount)
  /\ CollaborationCodes \subseteq Granted(SeedCount)
  /\ PortalCodes \subseteq Granted(SeedCount)
<1>1. /\ USERS[1].status = "ACTIVE" /\ USERS[1].role = "ADMIN"
      /\ USERS[7].status = "ACTIVE" /\ USERS[7].role = "COLLABORATOR"
  BY DEF USERS
<1>2. /\ ROLE_GROUPS[2].code = "ADMIN" /\ ROLE_GROUPS[8].code = "COLLABORATOR"
      /\ DOMAIN ROLE_GROUPS[2].groups = 1..7 /\ DOMAIN ROLE_GROUPS[8].groups = 1..1
      /\ ROLE_GROUPS[8].groups[1] = "collab.portal"
      /\ ROLE_GROUPS[2].groups[1] = "identity.admin"
      /\ ROLE_GROUPS[2].groups[2] = "crm.full"
      /\ ROLE_GROUPS[2].groups[3] = "service.full"
      /\ ROLE_GROUPS[2].groups[4] = "legal.full"
      /\ ROLE_GROUPS[2].groups[5] = "finance.full"
      /\ ROLE_GROUPS[2].groups[6] = "collab.admin"
      /\ ROLE_GROUPS[2].groups[7] = "system.config"
  BY DEF ROLE_GROUPS
<1>3. /\ GROUPS[1].code = "identity.admin"
      /\ GROUPS[2].code = "system.config"
      /\ GROUPS[3].code = "crm.full"
      /\ GROUPS[7].code = "service.full"
      /\ GROUPS[8].code = "legal.full"
      /\ GROUPS[11].code = "finance.full"
      /\ GROUPS[15].code = "collab.admin"
      /\ GROUPS[16].code = "collab.portal"
  BY DEF GROUPS
<1>4. /\ Leads(1, 2, 1, 1)
      /\ Leads(1, 2, 7, 2)
      /\ Leads(1, 2, 2, 3)
      /\ Leads(1, 2, 3, 7)
      /\ Leads(1, 2, 4, 8)
      /\ Leads(1, 2, 5, 11)
      /\ Leads(1, 2, 6, 15)
      /\ Leads(7, 8, 1, 16)
  BY <1>1, <1>2, <1>3 DEF Leads
<1>5. CodesOf(GROUPS[1]) \subseteq Granted(SeedCount)
  BY <1>4, Holds
<1>6. CodesOf(GROUPS[2]) \subseteq Granted(SeedCount)
  BY <1>4, Holds
<1>7. CodesOf(GROUPS[3]) \subseteq Granted(SeedCount)
  BY <1>4, Holds
<1>8. CodesOf(GROUPS[7]) \subseteq Granted(SeedCount)
  BY <1>4, Holds
<1>9. CodesOf(GROUPS[8]) \subseteq Granted(SeedCount)
  BY <1>4, Holds
<1>10. CodesOf(GROUPS[11]) \subseteq Granted(SeedCount)
  BY <1>4, Holds
<1>11. CodesOf(GROUPS[15]) \subseteq Granted(SeedCount)
  BY <1>4, Holds
<1>12. CodesOf(GROUPS[16]) \subseteq Granted(SeedCount)
  BY <1>4, Holds
<1> QED
  BY <1>5, <1>6, <1>7, <1>8, <1>9, <1>10, <1>11, <1>12, IdentityListed, SystemListed,
     CrmListed, ServicesListed, LegalListed, FinanceListed, CollaborationListed,
     PortalListed

\* What the routes ask for is what those groups grant.
LEMMA AskedByGroups == Asked \subseteq
  IdentityCodes \cup SystemCodes \cup CrmCodes \cup ServicesCodes \cup LegalCodes \cup
  FinanceCodes \cup CollaborationCodes \cup PortalCodes
<1> DEFINE all == IdentityCodes \cup SystemCodes \cup CrmCodes \cup ServicesCodes \cup LegalCodes \cup
                  FinanceCodes \cup CollaborationCodes \cup PortalCodes
<1>1. {CustomersController[r] : r \in DOMAIN CustomersController} \subseteq all
  BY DEF CustomersController, CrmCodes
<1>2. {CustomerFollowersController[r] : r \in DOMAIN CustomerFollowersController} \subseteq all
  BY DEF CustomerFollowersController, CrmCodes
<1>3. {NotesController[r] : r \in DOMAIN NotesController} \subseteq all
  BY DEF NotesController, CrmCodes
<1>4. {ActivitiesController[r] : r \in DOMAIN ActivitiesController} \subseteq all
  BY DEF ActivitiesController, CrmCodes
<1>5. {LeadsController[r] : r \in DOMAIN LeadsController} \subseteq all
  BY DEF LeadsController, CrmCodes
<1>6. {ContactsController[r] : r \in DOMAIN ContactsController} \subseteq all
  BY DEF ContactsController, CrmCodes
<1>7. {ImportsController[r] : r \in DOMAIN ImportsController} \subseteq all
  BY DEF ImportsController, CrmCodes
<1>8. {ServicesController[r] : r \in DOMAIN ServicesController} \subseteq all
  BY DEF ServicesController, ServicesCodes
<1>9. {ContractsController[r] : r \in DOMAIN ContractsController} \subseteq all
  BY DEF ContractsController, LegalCodes
<1>10. {WorkflowTemplatesController[r] : r \in DOMAIN WorkflowTemplatesController} \subseteq all
  BY DEF WorkflowTemplatesController, LegalCodes
<1>11. {WorkflowInstancesController[r] : r \in DOMAIN WorkflowInstancesController} \subseteq all
  BY DEF WorkflowInstancesController, LegalCodes
<1>12. {TasksController[r] : r \in DOMAIN TasksController} \subseteq all
  BY DEF TasksController, LegalCodes
<1>13. {DocumentsController[r] : r \in DOMAIN DocumentsController} \subseteq all
  BY DEF DocumentsController, LegalCodes
<1>14. {OrdersController[r] : r \in DOMAIN OrdersController} \subseteq all
  BY DEF OrdersController, FinanceCodes
<1>15. {PaymentsController[r] : r \in DOMAIN PaymentsController} \subseteq all
  BY DEF PaymentsController, FinanceCodes
<1>16. {VatInvoicesController[r] : r \in DOMAIN VatInvoicesController} \subseteq all
  BY DEF VatInvoicesController, FinanceCodes
<1>17. {ExpensesController[r] : r \in DOMAIN ExpensesController} \subseteq all
  BY DEF ExpensesController, FinanceCodes
<1>18. {CommissionsController[r] : r \in DOMAIN CommissionsController} \subseteq all
  BY DEF CommissionsController, FinanceCodes
<1>19. {CollaboratorsController[r] : r \in DOMAIN CollaboratorsController} \subseteq all
  BY DEF CollaboratorsController, CollaborationCodes
<1>20. {ContractRequestsController[r] : r \in DOMAIN ContractRequestsController} \subseteq all
  BY DEF ContractRequestsController, PortalCodes, CollaborationCodes
<1>21. {UsersController[r] : r \in DOMAIN UsersController} \subseteq all
  BY DEF UsersController, IdentityCodes
<1>22. {RolesController[r] : r \in DOMAIN RolesController} \subseteq all
  BY DEF RolesController, IdentityCodes
<1>23. {PermissionsController[r] : r \in DOMAIN PermissionsController} \subseteq all
  BY DEF PermissionsController, IdentityCodes
<1>24. {NotificationsController[r] : r \in DOMAIN NotificationsController} \subseteq all
  BY DEF NotificationsController, SystemCodes
<1>25. {NotificationPreferencesController[r] : r \in DOMAIN NotificationPreferencesController} \subseteq all
  BY DEF NotificationPreferencesController, SystemCodes
<1>26. {RemindersController[r] : r \in DOMAIN RemindersController} \subseteq all
  BY DEF RemindersController, SystemCodes
<1>27. {EmailTemplatesController[r] : r \in DOMAIN EmailTemplatesController} \subseteq all
  BY DEF EmailTemplatesController, SystemCodes
<1>28. {MailController[r] : r \in DOMAIN MailController} \subseteq all
  BY DEF MailController, SystemCodes
<1>29. {ConfigController[r] : r \in DOMAIN ConfigController} \subseteq all
  BY DEF ConfigController, SystemCodes
<1> HIDE DEF all
<1>30. \A c \in Controllers : {c[r] : r \in DOMAIN c} \subseteq all
  BY <1>1, <1>2, <1>3, <1>4, <1>5, <1>6, <1>7, <1>8, <1>9, <1>10, <1>11, <1>12, <1>13,
     <1>14, <1>15, <1>16, <1>17, <1>18, <1>19, <1>20, <1>21, <1>22, <1>23, <1>24, <1>25,
     <1>26, <1>27, <1>28, <1>29 DEF Controllers
<1>31. Asked \subseteq all
  BY <1>30 DEF Asked
<1> QED
  BY <1>31 DEF all

\* Once the script is through, and as long as no request has blocked a user of
\* the seed or replaced who holds what, every route has an active user who may
\* call it, by the groups and codes of the seed: each group of ADMIN, and of the
\* COLLABORATOR the one permission that ADMIN lacks, was created as it is spelt.
THEOREM RoutesHaveUsers == Spec => []EveryRouteHasAUser
<1>1. Asked \subseteq Granted(SeedCount)
  BY AskedByGroups, AllGranted
<1>2. ASSUME SeedInv, script.status = "complete", lost \cap AccessTables = {}
      PROVE  Granted(db) = Granted(SeedCount)
  <2>1. \A t \in AccessTables : t \in Tables \ lost
    BY <1>2 DEF AccessTables, Tables
  <2>2. \A t \in AccessTables : db[t] = SeedCount[t]
    BY <1>2, <2>1 DEF SeedInv, CompleteSeedIsWhole
  <2>3. /\ db["userRole"] = SeedCount["userRole"]
        /\ db["rolePermissionGroup"] = SeedCount["rolePermissionGroup"]
        /\ db["groupPermission"] = SeedCount["groupPermission"]
    BY <2>2 DEF AccessTables
  <2>4. ActiveUsers(db) = ActiveUsers(SeedCount)
    BY <2>3 DEF ActiveUsers
  <2>5. \A i : GrantedTo(i, db) = GrantedTo(i, SeedCount)
    BY <2>3 DEF GrantedTo
  <2> QED
    BY <2>4, <2>5 DEF Granted
<1>3. SeedInv => EveryRouteHasAUser
  BY <1>1, <1>2 DEF EveryRouteHasAUser
<1> QED
  BY <1>3, Invariance, PTL
=============================================================================
