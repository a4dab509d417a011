---------------------------- MODULE SessionProofs ----------------------------
(***************************************************************************)
(* Theorems about the life of a CCmDatabase object: no export ever reads   *)
(* another database or table than the one it was called for; every         *)
(* statement a pointer leads to is in the list once; and an object that is *)
(* gone has finalized its statements once or left them at rest.            *)
(***************************************************************************)
EXTENDS Session, FiniteSetTheorems, TLAPS

(* The tables joined with C. *)
Linked == {"CR", "Toll_ETA", "Toll_Pattern"}

(* Where a call to parse_db_C_CR_Toll may stand. *)
InLoop == {"C", "CR", "Toll_ETA", "Toll_Pattern",
           "CR rows", "Toll_ETA rows", "Toll_Pattern rows"}
InJoin == {"selectC", "remove"} \cup InLoop

Pcs == {"idle", "insert", "select", "rows"} \cup InJoin

(* All statements belong to the one database that is open, the cached ones *)
(* to their table, and a call in progress is one on this database.         *)
StmtsOfDb ==
  /\ stmts \in Seq(Stmt)
  /\ \A s \in 1..Len(stmts) : stmts[s].db = m_db
  /\ stmts # <<>> \/ pc # "idle" => m_db \in Paths \cup {Mem}

PointersOk ==
  /\ cached \in [Single -> Pointer]
  /\ local \in [Joined -> Pointer]
  /\ \A k \in Single : cached[k] # Null => stmts[cached[k]].table = k

CallOk ==
  /\ pc \in Pcs
  /\ pc # "idle" => call.path = m_db
  /\ pc \in {"select", "rows"} => call.kind \in Single
  /\ pc = "rows" => cached[call.kind] # Null
  /\ pc \in InJoin => call.kind = "C_CR_Toll"
  /\ pc \in InLoop => local["C"] # Null
  /\ \A t \in Linked : pc = InRows[t] => local[t] # Null

Live == StmtsOfDb /\ PointersOk /\ CallOk

(* An object that is gone does nothing any more. *)
OwnInv == OwnData /\ (pc # "gone" => Live)

LEMMA RowPcs ==
  /\ Joined \ {"C"} = Linked
  /\ DOMAIN InRows = Linked
  /\ InRows["CR"] = "CR rows"
  /\ InRows["Toll_ETA"] = "Toll_ETA rows"
  /\ InRows["Toll_Pattern"] = "Toll_Pattern rows"
  BY DEF InRows, Joined, Linked

LEMMA OnRowPcs ==
  ASSUME OnRow  PROVE pc \notin {"idle", "gone"}
  <1>1. pc \in {"rows", "CR", "Toll_ETA"} \/ \E t \in Linked : pc = InRows[t]
    BY RowPcs DEF OnRow
  <1> QED  BY <1>1, RowPcs DEF Linked

-----------------------------------------------------------------------------
(* Steps that change the statements *)

LEMMA CreateKeeps ==
  ASSUME StmtsOfDb, m_db \in Paths \cup {Mem},
         NEW t \in Single \cup {"C", "insert"}, Create(t)
  PROVE  /\ stmts' \in Seq(Stmt)
         /\ stmts' # <<>>
         /\ Len(stmts') = Len(stmts) + 1
         /\ Len(stmts) \in Nat
         /\ \A s \in 1..Len(stmts') : stmts'[s].db = m_db
         /\ \A s \in 1..Len(stmts) : stmts'[s] = stmts[s]
         /\ stmts'[Len(stmts) + 1].table = t
  <1> DEFINE e == [db |-> m_db, table |-> t, st |-> "ready", finalized |-> 0]
  <1>1. e \in Stmt
    BY DEF Stmt
  <1>2. stmts' = Append(stmts, e)
    BY DEF Create
  <1>3. stmts \in Seq(Stmt)
    BY DEF StmtsOfDb
  <1>4. e.db = m_db /\ e.table = t
    OBVIOUS
  <1> HIDE DEF e
  <1>5. /\ stmts' \in Seq(Stmt)
        /\ Len(stmts') = Len(stmts) + 1
        /\ Len(stmts) \in Nat
        /\ \A s \in 1..Len(stmts) : stmts'[s] = stmts[s]
        /\ stmts'[Len(stmts) + 1] = e
    BY <1>1, <1>2, <1>3
  <1>6. stmts' # <<>>
    BY <1>5
  <1>7. \A s \in 1..Len(stmts') : stmts'[s].db = m_db
    BY <1>4, <1>5 DEF StmtsOfDb
  <1> QED  BY <1>4, <1>5, <1>6, <1>7

LEMMA SteppedKeeps ==
  ASSUME StmtsOfDb, NEW s \in 1..Len(stmts), NEW st \in {"ready", "row", "done"}
  PROVE  /\ Stepped(s, st) \in Seq(Stmt)
         /\ Len(Stepped(s, st)) = Len(stmts)
         /\ \A i \in 1..Len(stmts) : /\ Stepped(s, st)[i].db = m_db
                                     /\ Stepped(s, st)[i].table = stmts[i].table
  <1>1. /\ stmts \in [1..Len(stmts) -> Stmt]
        /\ Len(stmts) \in Nat
    BY DEF StmtsOfDb
  <1>2. Stepped(s, st) \in [1..Len(stmts) -> Stmt]
    BY <1>1 DEF Stepped, Stmt
  <1>3. Stepped(s, st) \in Seq(Stmt) /\ Len(Stepped(s, st)) = Len(stmts)
    BY <1>1, <1>2
  <1>4. ASSUME NEW i \in 1..Len(stmts)
        PROVE  /\ Stepped(s, st)[i].db = stmts[i].db
               /\ Stepped(s, st)[i].table = stmts[i].table
    BY <1>1 DEF Stepped, Stmt
  <1> QED  BY <1>3, <1>4 DEF StmtsOfDb

LEMMA AfterStep ==
  ASSUME StmtsOfDb, PointersOk, m_db \in Paths \cup {Mem},
         NEW s \in 1..Len(stmts), NEW st \in {"ready", "row", "done"},
         stmts' = Stepped(s, st), UNCHANGED <<m_db, cached>>,
         local' \in {local, NoLocals}
  PROVE  StmtsOfDb' /\ PointersOk'
  <1>1. /\ stmts' \in Seq(Stmt)
        /\ Len(stmts') = Len(stmts)
        /\ Len(stmts) \in Nat
        /\ \A i \in 1..Len(stmts) : /\ stmts'[i].db = m_db
                                    /\ stmts'[i].table = stmts[i].table
    BY SteppedKeeps DEF StmtsOfDb
  <1>2. StmtsOfDb'
    BY <1>1 DEF StmtsOfDb
  <1>3. cached' \in [Single -> Pointer'] /\ local' \in [Joined -> Pointer']
    BY <1>1 DEF PointersOk, Pointer, NoLocals, Null
  <1>4. \A k \in Single : cached[k] # Null => cached[k] \in 1..Len(stmts)
    BY <1>1 DEF PointersOk, Pointer, Null
  <1>5. \A k \in Single : cached'[k] # Null => stmts'[cached'[k]].table = k
    BY <1>1, <1>4 DEF PointersOk
  <1> QED  BY <1>2, <1>3, <1>5 DEF PointersOk

LEMMA AfterCreate ==
  ASSUME StmtsOfDb, PointersOk, m_db \in Paths \cup {Mem},
         NEW t \in Single \cup {"C", "insert"}, Create(t), UNCHANGED m_db,
         \/ cached' = cached
         \/ t \in Single /\ cached' = [cached EXCEPT ![t] = Len(stmts) + 1],
         \/ local' \in {local, NoLocals}
         \/ t \in Joined /\ local' = [local EXCEPT ![t] = Len(stmts) + 1]
  PROVE  StmtsOfDb' /\ PointersOk'
  <1>1. /\ stmts' \in Seq(Stmt)
        /\ stmts' # <<>>
        /\ Len(stmts') = Len(stmts) + 1
        /\ Len(stmts) \in Nat
        /\ \A s \in 1..Len(stmts') : stmts'[s].db = m_db
        /\ \A s \in 1..Len(stmts) : stmts'[s] = stmts[s]
        /\ stmts'[Len(stmts) + 1].table = t
    BY CreateKeeps
  <1>2. StmtsOfDb'
    BY <1>1 DEF StmtsOfDb
  <1>3. Pointer \subseteq Pointer' /\ Len(stmts) + 1 \in Pointer' /\ Null \in Pointer'
    BY <1>1 DEF Pointer, Null
  <1>4. cached' \in [Single -> Pointer']
    BY <1>3 DEF PointersOk
  <1>5. local' \in [Joined -> Pointer']
    BY <1>3 DEF PointersOk, NoLocals
  <1>6. \A k \in Single : cached[k] # Null => cached[k] \in 1..Len(stmts)
    BY <1>1 DEF PointersOk, Pointer, Null
  <1>7. ASSUME NEW k \in Single, cached'[k] # Null
        PROVE  stmts'[cached'[k]].table = k
    <2>1. CASE cached'[k] = cached[k]
      BY <1>1, <1>6, <1>7, <2>1 DEF PointersOk
    <2>2. CASE cached'[k] # cached[k]
      <3>1. k = t /\ cached'[k] = Len(stmts) + 1
        BY <2>2 DEF PointersOk
      <3> QED  BY <1>1, <3>1
    <2> QED  BY <2>1, <2>2
  <1> QED  BY <1>2, <1>4, <1>5, <1>7 DEF PointersOk

(* Nothing is created or stepped. *)
LEMMA AfterNothing ==
  ASSUME StmtsOfDb, PointersOk, m_db \in Paths \cup {Mem},
         UNCHANGED <<m_db, stmts>>,
         \/ cached' = cached
         \/ \E k \in Single : cached' = [cached EXCEPT ![k] = Null],
         \/ local' \in {local, NoLocals}
         \/ \E t \in Joined : local' = [local EXCEPT ![t] = Null]
  PROVE  StmtsOfDb' /\ PointersOk'
  <1>1. StmtsOfDb'
    BY DEF StmtsOfDb
  <1>2. Pointer' = Pointer /\ Null \in Pointer
    BY DEF Pointer, Null, StmtsOfDb
  <1>3. cached' \in [Single -> Pointer'] /\ local' \in [Joined -> Pointer']
    BY <1>2 DEF PointersOk, NoLocals
  <1>4. \A k \in Single : cached'[k] \in {cached[k], Null}
    BY DEF PointersOk
  <1>5. \A k \in Single : cached'[k] # Null => stmts'[cached'[k]].table = k
    BY <1>4 DEF PointersOk
  <1> QED  BY <1>1, <1>3, <1>5 DEF PointersOk

(* A row is fetched with a statement of the database of the call. *)
LEMMA FetchOwn ==
  ASSUME OwnData, NEW s, Fetch(s), stmts[s].db = call.path,
         call.kind \in Single => stmts[s].table = call.kind
  PROVE  OwnData'
  BY DEF OwnData, Fetch

LEMMA IdleCall ==
  ASSUME Return
  PROVE  CallOk' /\ local' = NoLocals /\ pc' = "idle"
  <1>1. pc' = "idle" /\ local' = NoLocals
    BY DEF Return
  <1>2. \A t \in Linked : InRows[t] # "idle"
    BY RowPcs DEF Linked
  <1> QED  BY <1>1, <1>2 DEF CallOk, Pcs, InJoin, InLoop

-----------------------------------------------------------------------------
(* Actions *)

LEMMA BeginKeeps ==
  ASSUME StmtsOfDb, PointersOk, CallOk, OwnData,
         NEW path \in Paths \cup {Mem}, NEW kind, NEW start \in Pcs,
         start \in {"select", "rows"} => kind \in Single /\ start = "select",
         start \in InJoin => kind = "C_CR_Toll" /\ start = "selectC",
         Begin(path, kind, start)
  PROVE  Live' /\ OwnData'
  <1>1. OwnData'
    BY DEF Begin, OwnData
  <1>2. CASE UNCHANGED <<m_db, pc, call>>
    <2>1. UNCHANGED <<m_db, stmts, cached, local, call, pc>>
      BY <1>2 DEF Begin
    <2>2. StmtsOfDb'
      BY <2>1 DEF StmtsOfDb
    <2>3. PointersOk'
      BY <2>1 DEF PointersOk, Pointer
    <2>4. CallOk'
      BY <2>1 DEF CallOk
    <2> QED  BY <1>1, <2>2, <2>3, <2>4 DEF Live
  <1>3. CASE /\ Opens(path) /\ m_db' = path /\ pc' = start
             /\ call' = IF start = "idle" THEN NoCall
                        ELSE [path |-> path, kind |-> kind]
    <2>1. stmts = <<>>
      BY <1>3, PathsAssumption DEF Opens, StmtsOfDb
    <2>2. StmtsOfDb'
      BY <1>3, <2>1 DEF Begin, StmtsOfDb
    <2>3. PointersOk'
      BY DEF Begin, PointersOk, Pointer
    <2>4. start # "idle" => call'.path = path /\ call'.kind = kind
      BY <1>3
    <2>5. start # "rows" /\ start \notin InLoop
      BY DEF InJoin, InLoop
    <2>6. \A t \in Linked : start # InRows[t]
      BY RowPcs DEF InJoin, InLoop, Linked
    <2>7. CallOk'
      BY <1>3, <2>4, <2>5, <2>6 DEF CallOk
    <2> QED  BY <1>1, <2>2, <2>3, <2>7 DEF Live
  <1> QED  BY <1>1, <1>2, <1>3 DEF Begin

LEMMA Active ==
  ASSUME Live, pc # "idle"
  PROVE  m_db \in Paths \cup {Mem} /\ call.path = m_db
  BY DEF Live, StmtsOfDb, CallOk

(* A pointer that is not null is a statement of the call's database. *)
LEMMA Cached ==
  ASSUME Live, pc = "rows"
  PROVE  /\ cached[call.kind] \in 1..Len(stmts)
         /\ stmts[cached[call.kind]].db = call.path
         /\ stmts[cached[call.kind]].table = call.kind
  <1>1. call.kind \in Single /\ cached[call.kind] # Null
    BY DEF Live, CallOk
  <1>2. Len(stmts) \in Nat
    BY DEF Live, StmtsOfDb
  <1>3. cached[call.kind] \in 1..Len(stmts)
    BY <1>1, <1>2 DEF Live, PointersOk, Pointer, Null
  <1> QED  BY <1>1, <1>3, Active DEF Live, StmtsOfDb, PointersOk

LEMMA Local ==
  ASSUME Live, pc # "idle", NEW t \in Joined, local[t] # Null
  PROVE  local[t] \in 1..Len(stmts) /\ stmts[local[t]].db = call.path
  <1>1. Len(stmts) \in Nat
    BY DEF Live, StmtsOfDb
  <1>2. local[t] \in 1..Len(stmts)
    BY <1>1 DEF Live, PointersOk, Pointer, Null
  <1> QED  BY <1>2, Active DEF Live, StmtsOfDb

LEMMA InsertKeeps ==
  ASSUME Live, OwnData, Insert
  PROVE  Live' /\ OwnData'
  <1>1. m_db \in Paths \cup {Mem}
    BY Active DEF Insert
  <1>2. Return /\ UNCHANGED <<m_db, cached, fetched>>
    BY DEF Insert
  <1>3. CallOk' /\ local' = NoLocals
    BY <1>2, IdleCall
  <1>4. StmtsOfDb' /\ PointersOk'
    <2>1. CASE Create("insert")
      BY <1>1, <1>2, <1>3, <2>1, AfterCreate DEF Live
    <2>2. CASE CreateNull
      BY <1>1, <1>2, <1>3, <2>2, AfterNothing DEF Live, CreateNull
    <2> QED  BY <2>1, <2>2 DEF Insert
  <1> QED  BY <1>2, <1>3, <1>4 DEF Live, OwnData

LEMMA SelectKeeps ==
  ASSUME Live, OwnData, Select
  PROVE  Live' /\ OwnData'
  <1> DEFINE k == call.kind
  <1>1. m_db \in Paths \cup {Mem}
    BY Active DEF Select
  <1>2. k \in Single
    BY DEF Select, Live, CallOk
  <1>3. UNCHANGED <<m_db, fetched>>
    BY DEF Select
  <1>4. \/ cached'[k] = Null /\ Return
        \/ cached'[k] # Null /\ pc' = "rows" /\ UNCHANGED <<call, local>>
    BY DEF Select
  <1>5. local' \in {local, NoLocals}
    BY <1>4, IdleCall
  <1>6. StmtsOfDb' /\ PointersOk'
    <2>1. CASE Create(k) /\ cached' = [cached EXCEPT ![k] = Len(stmts) + 1]
      BY <1>1, <1>2, <1>3, <1>5, <2>1, AfterCreate DEF Live
    <2>2. CASE CreateNull /\ cached' = [cached EXCEPT ![k] = Null]
      BY <1>1, <1>2, <1>3, <1>5, <2>2, AfterNothing DEF Live, CreateNull
    <2>3. CASE UNCHANGED <<stmts, list, cached>>
      BY <1>1, <1>3, <1>5, <2>3, AfterNothing DEF Live
    <2> QED  BY <2>1, <2>2, <2>3 DEF Select
  <1>7. CallOk'
    <2>1. CASE Return
      BY <2>1, IdleCall
    <2>2. CASE cached'[k] # Null /\ pc' = "rows" /\ UNCHANGED <<call, local>>
      <3>1. \A t \in Linked : InRows[t] # "rows"
        BY RowPcs DEF Linked
      <3>2. pc' \in Pcs /\ pc' \notin InJoin /\ pc' \notin InLoop
        BY <2>2 DEF Pcs, InJoin, InLoop
      <3>3. call.path = m_db
        BY Active DEF Select
      <3> QED  BY <1>2, <1>3, <2>2, <3>1, <3>2, <3>3 DEF CallOk
    <2> QED  BY <1>4, <2>1, <2>2
  <1> QED  BY <1>3, <1>6, <1>7 DEF Live, OwnData

LEMMA NoFileKeeps ==
  ASSUME Live, OwnData, NoFile \/ Throw
  PROVE  Live' /\ OwnData'
  <1>1. Return /\ UNCHANGED <<m_db, stmts, cached, fetched>>
    BY DEF NoFile, Throw
  <1>2. pc # "idle"
    BY OnRowPcs DEF NoFile, Throw
  <1>3. StmtsOfDb' /\ PointersOk'
    BY <1>1, <1>2, Active, IdleCall, AfterNothing DEF Live
  <1> QED  BY <1>1, <1>3, IdleCall DEF Live, OwnData

LEMMA RowKeeps ==
  ASSUME Live, OwnData, Row
  PROVE  Live' /\ OwnData'
  <1> DEFINE s == cached[call.kind]
  <1>1. /\ pc = "rows" /\ stmts' = Stepped(s, "row") /\ Fetch(s)
        /\ UNCHANGED <<m_db, cached, local, call, pc>>
    BY DEF Row
  <1>2. /\ s \in 1..Len(stmts) /\ stmts[s].db = call.path
        /\ stmts[s].table = call.kind
    BY <1>1, Cached
  <1>3. StmtsOfDb' /\ PointersOk'
    BY <1>1, <1>2, Active, AfterStep DEF Live
  <1>4. OwnData'
    BY <1>1, <1>2, FetchOwn
  <1>5. CallOk'
    BY <1>1 DEF Live, CallOk
  <1> QED  BY <1>3, <1>4, <1>5 DEF Live

LEMMA LastRowKeeps ==
  ASSUME Live, OwnData, LastRow
  PROVE  Live' /\ OwnData'
  <1> DEFINE s == cached[call.kind]
  <1>1. /\ pc = "rows" /\ stmts' = Stepped(s, "ready") /\ Return
        /\ UNCHANGED <<m_db, cached, fetched>>
    BY DEF LastRow
  <1>2. s \in 1..Len(stmts)
    BY <1>1, Cached
  <1>3. StmtsOfDb' /\ PointersOk'
    BY <1>1, <1>2, Active, IdleCall, AfterStep DEF Live
  <1> QED  BY <1>1, <1>3, IdleCall DEF Live, OwnData

(* The call goes on in parse_db_C_CR_Toll. *)
LEMMA JoinCall ==
  ASSUME Live, pc \in InJoin, UNCHANGED <<m_db, call>>,
         pc' \in InJoin \cup {pc},
         pc' \in InLoop => local'["C"] # Null,
         \A t \in Linked : pc' = InRows[t] => local'[t] # Null
  PROVE  CallOk'
  <1>1. pc' \in InJoin /\ pc' # "idle" /\ pc' \notin {"select", "rows"}
    BY DEF InJoin, InLoop
  <1>2. pc # "idle"
    BY DEF InJoin, InLoop
  <1>3. call.path = m_db /\ call.kind = "C_CR_Toll"
    BY <1>2, Active DEF Live, CallOk
  <1>4. pc' \in Pcs
    BY <1>1 DEF Pcs
  <1> QED  BY <1>1, <1>3, <1>4 DEF CallOk

LEMMA SelectCKeeps ==
  ASSUME Live, OwnData, SelectC
  PROVE  Live' /\ OwnData'
  <1>1. pc = "selectC" /\ UNCHANGED <<m_db, cached, fetched>>
    BY DEF SelectC
  <1>2. m_db \in Paths \cup {Mem}
    BY <1>1, Active
  <1>3. CASE /\ Create("C") /\ local' = [local EXCEPT !["C"] = Len(stmts) + 1]
             /\ pc' = "C" /\ UNCHANGED call
    <2>1. StmtsOfDb' /\ PointersOk'
      BY <1>1, <1>2, <1>3, AfterCreate DEF Live, Joined
    <2>2. local'["C"] # Null
      BY <1>3 DEF Live, PointersOk, StmtsOfDb, Joined, Null
    <2>3. CallOk'
      BY <1>1, <1>3, <2>2, JoinCall, RowPcs DEF InJoin, InLoop, Linked
    <2> QED  BY <1>1, <2>1, <2>3 DEF Live, OwnData
  <1>4. CASE CreateNull /\ Return
    <2>1. StmtsOfDb' /\ PointersOk'
      BY <1>1, <1>2, <1>4, IdleCall, AfterNothing DEF Live, CreateNull
    <2> QED  BY <1>1, <1>4, <2>1, IdleCall DEF Live, OwnData
  <1> QED  BY <1>3, <1>4 DEF SelectC

LEMMA RowCKeeps ==
  ASSUME Live, OwnData, RowC
  PROVE  Live' /\ OwnData'
  <1>1. /\ pc = "C" /\ stmts' = Stepped(local["C"], "row") /\ Fetch(local["C"])
        /\ pc' \in {"CR", "Toll_ETA"} /\ UNCHANGED <<m_db, cached, local, call>>
    BY DEF RowC
  <1>2. call.kind = "C_CR_Toll"
    BY <1>1 DEF Live, CallOk, InJoin, InLoop
  <1>3. local["C"] \in 1..Len(stmts) /\ stmts[local["C"]].db = call.path
    BY <1>1, Local DEF Live, CallOk, Joined, InLoop
  <1>4. StmtsOfDb' /\ PointersOk'
    BY <1>1, <1>3, Active, AfterStep DEF Live
  <1>5. OwnData'
    BY <1>1, <1>2, <1>3, FetchOwn DEF Single
  <1>6. local["C"] # Null
    BY <1>1 DEF Live, CallOk, InLoop
  <1>7. CallOk'
    BY <1>1, <1>6, JoinCall, RowPcs DEF InJoin, InLoop, Linked
  <1> QED  BY <1>4, <1>5, <1>7 DEF Live

LEMMA EndOfCKeeps ==
  ASSUME Live, OwnData, EndOfC
  PROVE  Live' /\ OwnData'
  <1>1. /\ pc = "C" /\ stmts' = Stepped(local["C"], "done") /\ pc' = "remove"
        /\ UNCHANGED <<m_db, cached, local, call, fetched>>
    BY DEF EndOfC
  <1>2. local["C"] \in 1..Len(stmts)
    BY <1>1, Local DEF Live, CallOk, Joined, InLoop
  <1>3. StmtsOfDb' /\ PointersOk'
    BY <1>1, <1>2, Active, AfterStep DEF Live
  <1>4. CallOk'
    BY <1>1, JoinCall, RowPcs DEF InJoin, InLoop, Linked
  <1> QED  BY <1>1, <1>3, <1>4 DEF Live, OwnData

LEMMA LinkedPcs ==
  ASSUME NEW t \in Linked
  PROVE  /\ t \in Joined /\ t # "C" /\ t \in Single /\ t \in InLoop
         /\ InRows[t] \in InLoop /\ InRows[t] \notin Joined
         /\ \A p \in After(t) : p \in Joined /\ p \in InLoop
  <1>1. CASE t = "CR"
    BY <1>1, RowPcs DEF Joined, Single, After, InLoop
  <1>2. CASE t = "Toll_ETA"
    BY <1>2, RowPcs DEF Joined, Single, After, InLoop
  <1>3. CASE t = "Toll_Pattern"
    BY <1>3, RowPcs DEF Joined, Single, After, InLoop
  <1> QED  BY <1>1, <1>2, <1>3 DEF Linked

LEMMA InRowsInjective ==
  ASSUME NEW t \in Linked, NEW u \in Linked, InRows[t] = InRows[u]
  PROVE  t = u
  BY RowPcs DEF Linked

LEMMA JoinStartKeeps ==
  ASSUME Live, OwnData, JoinStart
  PROVE  Live' /\ OwnData'
  <1>1. /\ pc \in Linked /\ pc \in Joined /\ pc # "C"
        /\ UNCHANGED <<m_db, cached, call, fetched>>
    BY RowPcs, LinkedPcs DEF JoinStart
  <1>2. pc \in InLoop /\ pc \in InJoin /\ pc # "idle" /\ pc \in Single
    BY <1>1, LinkedPcs DEF InJoin, InLoop
  <1>3. m_db \in Paths \cup {Mem} /\ local["C"] # Null
    BY <1>2, Active DEF Live, CallOk
  <1>4. local \in [Joined -> Pointer] /\ Len(stmts) \in Nat
    BY DEF Live, PointersOk, StmtsOfDb
  <1>5. CASE /\ Create(pc) /\ local' = [local EXCEPT ![pc] = Len(stmts) + 1]
             /\ pc' = InRows[pc]
    <2>1. StmtsOfDb' /\ PointersOk'
      BY <1>1, <1>2, <1>3, <1>5, AfterCreate DEF Live
    <2>2. local'[pc] # Null /\ local'["C"] = local["C"]
      BY <1>1, <1>4, <1>5 DEF Null
    <2>3. \A t \in Linked : pc' = InRows[t] => local'[t] # Null
      BY <1>1, <1>5, <2>2, InRowsInjective
    <2>4. pc' \in InJoin
      BY <1>1, <1>5, LinkedPcs DEF InJoin
    <2>5. CallOk'
      BY <1>1, <1>2, <1>3, <2>2, <2>3, <2>4, JoinCall
    <2> QED  BY <1>1, <2>1, <2>5 DEF Live, OwnData
  <1>6. CASE CreateNull /\ UNCHANGED local /\ pc' \in After(pc)
    <2>1. StmtsOfDb' /\ PointersOk'
      BY <1>1, <1>3, <1>6, AfterNothing DEF Live, CreateNull
    <2>2. /\ pc' \in InJoin
          /\ \A t \in Linked : pc' # InRows[t]
      BY <1>1, <1>6, LinkedPcs DEF InJoin
    <2>3. CallOk'
      BY <1>1, <1>2, <1>3, <1>6, <2>2, JoinCall
    <2> QED  BY <1>1, <2>1, <2>3 DEF Live, OwnData
  <1>7. CASE /\ local[pc] # Null /\ stmts' = Stepped(local[pc], "ready")
             /\ pc' = InRows[pc] /\ UNCHANGED <<list, local>>
    <2>1. local[pc] \in 1..Len(stmts)
      BY <1>1, <1>2, <1>7, Local
    <2>2. StmtsOfDb' /\ PointersOk'
      BY <1>1, <1>3, <1>7, <2>1, AfterStep DEF Live
    <2>3. \A t \in Linked : pc' = InRows[t] => local'[t] # Null
      BY <1>1, <1>7, InRowsInjective
    <2>4. pc' \in InJoin
      BY <1>1, <1>7, LinkedPcs DEF InJoin
    <2>5. CallOk'
      BY <1>1, <1>2, <1>3, <1>7, <2>3, <2>4, JoinCall
    <2> QED  BY <1>1, <2>2, <2>5 DEF Live, OwnData
  <1> QED  BY <1>5, <1>6, <1>7 DEF JoinStart

(* In the loop over the rows of t. *)
LEMMA InRowsOf ==
  ASSUME Live, NEW t \in Joined \ {"C"}, pc = InRows[t]
  PROVE  /\ t \in Linked /\ pc \in InLoop /\ pc \in InJoin /\ pc # "idle"
         /\ local["C"] # Null
         /\ local[t] \in 1..Len(stmts) /\ stmts[local[t]].db = call.path
         /\ call.kind \notin Single
  <1>1. t \in Linked /\ pc \in InLoop
    BY RowPcs, LinkedPcs
  <1>2. pc \in InJoin /\ pc # "idle"
    BY <1>1 DEF InJoin, InLoop
  <1>3. local["C"] # Null /\ local[t] # Null
    BY <1>1 DEF Live, CallOk
  <1>4. local[t] \in 1..Len(stmts) /\ stmts[local[t]].db = call.path
    BY <1>2, <1>3, Local
  <1>5. call.kind \notin Single
    BY <1>2 DEF Live, CallOk, Single
  <1> QED  BY <1>1, <1>2, <1>3, <1>4, <1>5

LEMMA JoinRowKeeps ==
  ASSUME Live, OwnData, NEW t \in Joined \ {"C"}, JoinRow(t)
  PROVE  Live' /\ OwnData'
  <1>1. /\ pc = InRows[t]
        /\ stmts' = Stepped(local[t], "row") /\ Fetch(local[t])
        /\ UNCHANGED <<m_db, cached, local, call, pc>>
    BY DEF JoinRow
  <1>2. /\ pc # "idle" /\ local[t] \in 1..Len(stmts)
        /\ stmts[local[t]].db = call.path /\ call.kind \notin Single
    BY <1>1, InRowsOf
  <1>3. StmtsOfDb' /\ PointersOk'
    BY <1>1, <1>2, Active, AfterStep DEF Live
  <1>4. OwnData'
    BY <1>1, <1>2, FetchOwn
  <1>5. CallOk'
    BY <1>1 DEF Live, CallOk
  <1> QED  BY <1>3, <1>4, <1>5 DEF Live

LEMMA JoinEndKeeps ==
  ASSUME Live, OwnData, NEW t \in Joined \ {"C"}, JoinEnd(t)
  PROVE  Live' /\ OwnData'
  <1>1. /\ pc = InRows[t]
        /\ stmts' = Stepped(local[t], "done") /\ pc' \in After(t)
        /\ UNCHANGED <<m_db, cached, local, call, fetched>>
    BY DEF JoinEnd
  <1>2. /\ t \in Linked /\ pc \in InJoin /\ pc # "idle"
        /\ local["C"] # Null /\ local[t] \in 1..Len(stmts)
    BY <1>1, InRowsOf
  <1>3. StmtsOfDb' /\ PointersOk'
    BY <1>1, <1>2, Active, AfterStep DEF Live
  <1>4. pc' \in InJoin /\ \A u \in Linked : pc' # InRows[u]
    BY <1>1, <1>2, LinkedPcs DEF InJoin
  <1>5. CallOk'
    BY <1>1, <1>2, <1>4, JoinCall
  <1> QED  BY <1>1, <1>3, <1>5 DEF Live, OwnData

LEMMA RemoveKeeps ==
  ASSUME Live, OwnData, Remove
  PROVE  Live' /\ OwnData'
  <1>1. pc = "remove" /\ UNCHANGED <<m_db, stmts, cached, fetched>>
    BY DEF Remove
  <1>2. m_db \in Paths \cup {Mem}
    BY <1>1, Active
  <1>3. CASE Return
    <2>1. StmtsOfDb' /\ PointersOk'
      BY <1>1, <1>2, <1>3, IdleCall, AfterNothing DEF Live
    <2> QED  BY <1>1, <1>3, <2>1, IdleCall DEF Live, OwnData
  <1>4. CASE \E t \in Joined : /\ local' = [local EXCEPT ![t] = Null]
                              /\ UNCHANGED <<pc, call>>
    <2>1. StmtsOfDb' /\ PointersOk'
      BY <1>1, <1>2, <1>4, AfterNothing DEF Live
    <2>2. CallOk'
      BY <1>1, <1>4, JoinCall, RowPcs DEF InJoin, InLoop, Linked
    <2> QED  BY <1>1, <2>1, <2>2 DEF Live, OwnData
  <1> DEFINE left == {n \in 1..4 : local[Order[n]] # Null}
             t    == Order[CHOOSE n \in left : \A k \in left : n <= k]
  <1>5. left # {} => t \in Joined
    <2>1. SUFFICES ASSUME left # {}  PROVE \E n \in left : \A k \in left : n <= k
      BY <2>1 DEF Order, Joined
    <2>2. left \subseteq {1, 2, 3, 4}
      OBVIOUS
    <2> QED  BY <2>1, <2>2
  <1> QED  BY <1>3, <1>4, <1>5 DEF Remove

-----------------------------------------------------------------------------
LEMMA OwnInit == Init => OwnInv
  <1> SUFFICES ASSUME Init  PROVE OwnInv
    OBVIOUS
  <1>1. StmtsOfDb
    BY DEF Init, StmtsOfDb
  <1>2. PointersOk
    BY DEF Init, PointersOk, Pointer, NoLocals, Null
  <1>3. CallOk
    BY RowPcs DEF Init, CallOk, Pcs, InJoin, InLoop, Linked
  <1>4. OwnData
    BY DEF Init, OwnData
  <1> QED  BY <1>1, <1>2, <1>3, <1>4 DEF OwnInv, Live

LEMMA OwnStep == OwnInv /\ [Next]_vars => OwnInv'
  <1> SUFFICES ASSUME OwnInv, [Next]_vars  PROVE OwnInv'
    OBVIOUS
  <1>1. OwnData
    BY DEF OwnInv
  <1>2. CASE UNCHANGED vars
    BY <1>2 DEF OwnInv, OwnData, Live, StmtsOfDb, PointersOk, Pointer, CallOk, vars
  <1>3. CASE Gone
    BY <1>2, <1>3 DEF Gone
  <1>4. CASE Destroy
    BY <1>1, <1>4 DEF Destroy, OwnInv, OwnData
  <1> SUFFICES ASSUME Live, Next, ~Gone, ~Destroy  PROVE Live' /\ OwnData'
    <2>1. ~ \E p \in Paths : pc = "gone" /\ ParseDb(p)
      BY DEF ParseDb, Begin
    <2>2. ~ \E t \in Joined \ {"C"} : pc = "gone" /\ (JoinRow(t) \/ JoinEnd(t))
      BY RowPcs DEF JoinRow, JoinEnd, Linked
    <2>3. pc = "gone" => ~ (ImportMid \/ Combine \/ Insert \/ Select \/ NoFile
                              \/ Row \/ LastRow \/ SelectC \/ RowC \/ EndOfC
                              \/ JoinStart \/ Remove \/ Throw)
      BY OnRowPcs DEF ImportMid, Combine, Begin, Insert, Select, NoFile, Row,
        LastRow, SelectC, RowC, EndOfC, JoinStart, Joined, Remove, Throw
    <2>4. pc = "gone" => Gone \/ Destroy \/ UNCHANGED vars
      BY <2>1, <2>2, <2>3 DEF Next
    <2> QED  BY <1>2, <1>3, <1>4, <2>4 DEF OwnInv
  <1>5. CASE ImportMid
    BY <1>1, <1>5, BeginKeeps DEF ImportMid, Live, Pcs, InJoin, InLoop
  <1>6. CASE Combine
    BY <1>1, <1>6, BeginKeeps DEF Combine, Live, Pcs, InJoin, InLoop
  <1>7. ASSUME NEW p \in Paths, ParseDb(p)  PROVE Live' /\ OwnData'
    <2>1. KindOf[p] \in Single \cup {"C_CR_Toll"}
      BY <1>7, PathsAssumption DEF ParseDb
    <2>2. CASE KindOf[p] = "C_CR_Toll"
      <3>1. Begin(p, KindOf[p], "selectC")
        BY <1>7, <2>2 DEF ParseDb
      <3> QED  BY <1>1, <2>2, <3>1, BeginKeeps DEF Live, Pcs, InJoin, InLoop
    <2>3. CASE KindOf[p] \in Single
      <3>1. Begin(p, KindOf[p], "select")
        BY <1>7, <2>3 DEF ParseDb, Single
      <3> QED  BY <1>1, <2>3, <3>1, BeginKeeps DEF Live, Pcs, InJoin, InLoop
    <2> QED  BY <2>1, <2>2, <2>3
  <1>8. CASE Insert \/ Select \/ NoFile \/ Throw \/ Row \/ LastRow
    BY <1>1, <1>8, InsertKeeps, SelectKeeps, NoFileKeeps, RowKeeps, LastRowKeeps
  <1>9. CASE SelectC \/ RowC \/ EndOfC \/ JoinStart \/ Remove
    BY <1>1, <1>9, SelectCKeeps, RowCKeeps, EndOfCKeeps, JoinStartKeeps, RemoveKeeps
  <1>10. ASSUME NEW t \in Joined \ {"C"}, JoinRow(t) \/ JoinEnd(t)
         PROVE  Live' /\ OwnData'
    BY <1>1, <1>10, JoinRowKeeps, JoinEndKeeps
  <1> QED  BY <1>5, <1>6, <1>7, <1>8, <1>9, <1>10 DEF Next

(* For every set of databases and whatever calls are made on an object,    *)
(* in any number and order and however they end: an export reads rows only *)
(* from the database it was called for, and that of a single table only    *)
(* from this table.                                                        *)
THEOREM ReadsOwnData == Spec => []OwnData
  <1>1. OwnInv => OwnData
    BY DEF OwnInv
  <1> QED  BY <1>1, OwnInit, OwnStep, PTL DEF Spec

-----------------------------------------------------------------------------
(* The list and the pointers *)

(* The list holds no statement twice and all those a pointer leads to.     *)
InList(s) == \E p \in 1..Len(list) : list[p] = s

Listed ==
  /\ list \in Seq(1..Len(stmts))
  /\ \A i, j \in 1..Len(list) : list[i] = list[j] => i = j
  /\ \A k \in Single : cached[k] # Null => InList(cached[k])
  /\ \A t \in Joined : local[t] # Null => InList(local[t])

(* The pointers of parse_db_C_CR_Toll lead to statements of their own.     *)
Apart ==
  \A t \in Joined : local[t] # Null =>
    /\ \A u \in Joined : local[t] = local[u] => t = u
    /\ \A k \in Single : local[t] # cached[k]

(* A statement that is not in the list is not on a row.                    *)
Resting ==
  /\ \A s \in 1..Len(stmts) : stmts[s].finalized = 0
  /\ \A s \in 1..Len(stmts) : ~ InList(s) => stmts[s].st # "row"

(* Where the statement of t in parse_db_C_CR_Toll may be on a row: never   *)
(* when the statements are removed.                                        *)
MayBeOnRow(t, p) ==
  \/ t = "C" /\ p \in InLoop
  \/ t \in Linked /\ p = InRows[t]

Locals ==
  /\ pc \notin InLoop \cup {"remove"} => local = NoLocals
  /\ \A t \in Joined :
       local[t] # Null /\ stmts[local[t]].st = "row" => MayBeOnRow(t, pc)

Tidy == Listed /\ Apart /\ Resting /\ Locals

LEMMA TimesInList ==
  ASSUME Listed, NEW s
  PROVE  /\ Times(s) = IF InList(s) THEN 1 ELSE 0
         /\ Places(s) = {} <=> ~ InList(s)
  <1>1. Places(s) = {} <=> ~ InList(s)
    BY DEF Places, InList
  <1>2. CASE InList(s)
    <2>1. PICK p \in 1..Len(list) : list[p] = s
      BY <1>2 DEF InList
    <2>2. Places(s) = {p}
      BY <2>1 DEF Places, Listed
    <2>3. Cardinality({p}) = 1
      BY FS_Singleton
    <2> QED  BY <1>1, <1>2, <2>2, <2>3 DEF Times
  <1>3. CASE ~ InList(s)
    BY <1>1, <1>3, FS_EmptySet DEF Times
  <1> QED  BY <1>1, <1>2, <1>3

(* Pointers are kept or made null.                                         *)
LEMMA ListKept ==
  ASSUME Listed, Apart, UNCHANGED list, Len(stmts') = Len(stmts),
         \A k \in Single : cached'[k] \in {cached[k], Null},
         \A t \in Joined : local'[t] \in {local[t], Null}
  PROVE  Listed' /\ Apart'
  <1>1. Listed'
    BY DEF Listed, InList
  <1>2. Apart'
    BY DEF Apart
  <1> QED  BY <1>1, <1>2

(* A statement more, which one pointer at the most leads to.               *)
LEMMA ListGrown ==
  ASSUME Listed, Apart, PointersOk, Resting, stmts \in Seq(Stmt),
         NEW t, Create(t), NEW k, NEW u,
         \A l \in Single : \/ cached'[l] = cached[l]
                           \/ l = k /\ cached'[l] = Len(stmts) + 1,
         \A v \in Joined : \/ local'[v] \in {local[v], Null}
                           \/ v = u /\ local'[v] = Len(stmts) + 1,
         cached' = cached \/ \A v \in Joined : local'[v] \in {local[v], Null}
  PROVE  Listed' /\ Apart' /\ Resting'
  <1> DEFINE N == Len(stmts)
             L == Len(list)
             e == [db |-> m_db, table |-> t, st |-> "ready", finalized |-> 0]
  <1>1. /\ N \in Nat /\ L \in Nat
        /\ list \in Seq(1..N)
        /\ \A p \in 1..L : list[p] \in 1..N
    BY DEF Listed
  <1>2. /\ stmts' = Append(stmts, e) /\ list' = Append(list, N + 1)
        /\ e.st = "ready" /\ e.finalized = 0
    BY DEF Create
  <1> HIDE DEF e
  <1>3. /\ Len(stmts') = N + 1 /\ stmts'[N + 1] = e
        /\ \A s \in 1..N : stmts'[s] = stmts[s]
    BY <1>1, <1>2
  <1>4. /\ Len(list') = L + 1 /\ list'[L + 1] = N + 1
        /\ \A p \in 1..L : list'[p] = list[p]
        /\ list' \in Seq(1..(N + 1))
    <2>1. list \in Seq(1..(N + 1)) /\ N + 1 \in 1..(N + 1)
      BY <1>1
    <2> HIDE DEF N
    <2> QED  BY <1>2, <2>1
  <1>5. /\ \A l \in Single : cached[l] \in 0..N
        /\ \A v \in Joined : local[v] \in 0..N
    BY DEF PointersOk, Pointer
  <1> HIDE DEF N, L
  <1>6. \A s : InList(s) \/ s = N + 1 <=> \E p \in 1..(L + 1) : list'[p] = s
    <2> TAKE s
    <2>1. 1..(L + 1) = 1..L \cup {L + 1}
      BY <1>1
    <2> QED  BY <1>4, <2>1 DEF InList, L
  <1>7. Listed'
    <2>1. \A i, j \in 1..(L + 1) : list'[i] = list'[j] => i = j
      <3> SUFFICES ASSUME NEW i \in 1..(L + 1), NEW j \in 1..(L + 1),
                          list'[i] = list'[j]
                   PROVE  i = j
        OBVIOUS
      <3>1. \A a \in 1..(L + 1) : a \in 1..L \/ a = L + 1
        BY <1>1
      <3>2. CASE i \in 1..L /\ j \in 1..L
        BY <1>4, <3>2 DEF Listed, L
      <3>3. CASE i = L + 1 /\ j \in 1..L
        BY <1>1, <1>4, <3>3
      <3>4. CASE i \in 1..L /\ j = L + 1
        BY <1>1, <1>4, <3>4
      <3> QED  BY <3>1, <3>2, <3>3, <3>4
    <2>2. \A l \in Single : cached'[l] # Null =>
            \E p \in 1..(L + 1) : list'[p] = cached'[l]
      BY <1>6 DEF Listed, N
    <2>3. \A v \in Joined : local'[v] # Null =>
            \E p \in 1..(L + 1) : list'[p] = local'[v]
      BY <1>6 DEF Listed, N
    <2> QED  BY <1>3, <1>4, <2>1, <2>2, <2>3 DEF Listed, InList
  <1>8. Apart'
    <2> SUFFICES ASSUME NEW v \in Joined, local'[v] # Null
                 PROVE  /\ \A w \in Joined : local'[v] = local'[w] => v = w
                        /\ \A l \in Single : local'[v] # cached'[l]
      BY DEF Apart
    <2>1. CASE local'[v] = local[v]
      <3>1. local[v] \in 0..N /\ local[v] # N + 1
        BY <1>1, <1>5
      <3>2. \A w \in Joined : local'[w] \in {local[w], Null, N + 1}
        BY DEF N
      <3>3. \A l \in Single : cached'[l] \in {cached[l], N + 1}
        BY DEF N
      <3> QED  BY <2>1, <3>1, <3>2, <3>3 DEF Apart
    <2>2. CASE v = u /\ local'[v] = N + 1 /\ local'[v] # local[v]
      <3>1. cached' = cached
        BY <2>2
      <3>2. \A w \in Joined : local'[v] = local'[w] => w = u
        BY <1>1, <1>5, <2>2 DEF Null
      <3> QED  BY <1>1, <1>5, <2>2, <3>1, <3>2
    <2> QED  BY <2>1, <2>2 DEF N
  <1>9. Resting'
    <2>1. \A s \in 1..(N + 1) : s \in 1..N \/ s = N + 1
      BY <1>1
    <2>2. \A s \in 1..(N + 1) : stmts'[s].finalized = 0
      BY <1>2, <1>3, <2>1 DEF Resting, N
    <2>3. \A s \in 1..(N + 1) :
            (~ \E p \in 1..(L + 1) : list'[p] = s) => stmts'[s].st # "row"
      BY <1>3, <1>6, <2>1 DEF Resting, N
    <2> QED  BY <1>3, <1>4, <2>2, <2>3 DEF Resting, InList
  <1> QED  BY <1>7, <1>8, <1>9

(* A statement less, to which no pointer leads any more.                   *)
LEMMA ListShrunk ==
  ASSUME Listed, Apart, Resting, UNCHANGED <<stmts, cached>>,
         local \in [Joined -> Pointer], NEW t \in Joined, local[t] # Null,
         stmts[local[t]].st # "row", list' = Removed(local[t]),
         local' = [local EXCEPT ![t] = Null]
  PROVE  Listed' /\ Apart' /\ Resting'
  <1> DEFINE s == local[t]
             L == Len(list)
             p == CHOOSE k \in 1..L : list[k] = s
  <1>1. InList(s)
    BY DEF Listed
  <1>2. p \in 1..L /\ list[p] = s
    BY <1>1 DEF InList
  <1>3. list' = Without(list, s)
    BY <1>1, TimesInList DEF Removed
  <1>4. list' = [k \in 1..(L - 1) |-> IF k < p THEN list[k] ELSE list[k + 1]]
    BY <1>3 DEF Without
  <1>5. /\ L \in Nat \ {0} /\ p \in Nat
        /\ \A k \in 1..L : list[k] \in 1..Len(stmts)
    BY <1>2 DEF Listed
  <1> HIDE DEF L, p
  <1> DEFINE g(k) == IF k < p THEN k ELSE k + 1
  <1>6. \A k \in 1..(L - 1) : /\ g(k) \in 1..L /\ g(k) # p
                              /\ list'[k] = list[g(k)]
    BY <1>2, <1>4, <1>5
  <1>7. Len(list') = L - 1 /\ list' \in Seq(1..Len(stmts))
    BY <1>4, <1>5, <1>6
  <1>8. \A i, j \in 1..(L - 1) : list'[i] = list'[j] => i = j
    <2> SUFFICES ASSUME NEW i \in 1..(L - 1), NEW j \in 1..(L - 1),
                        list'[i] = list'[j]
                 PROVE  i = j
      OBVIOUS
    <2>1. g(i) = g(j)
      <3>1. list[g(i)] = list[g(j)] /\ g(i) \in 1..L /\ g(j) \in 1..L
        BY <1>6
      <3> HIDE DEF g
      <3> QED  BY <3>1 DEF Listed, L
    <2> QED  BY <1>5, <2>1
  <1>9. \A x : InList(x) /\ x # s <=> \E k \in 1..(L - 1) : list'[k] = x
    <2> TAKE x
    <2>1. ASSUME NEW k \in 1..(L - 1), list'[k] = x
          PROVE  InList(x) /\ x # s
      <3>1. g(k) \in 1..L /\ g(k) # p /\ list[g(k)] = x
        BY <1>6, <2>1
      <3> HIDE DEF g
      <3>2. InList(x)
        BY <3>1 DEF InList, L
      <3>3. x # s
        BY <1>2, <3>1 DEF Listed, L
      <3> QED  BY <3>2, <3>3
    <2>2. ASSUME InList(x), x # s
          PROVE  \E k \in 1..(L - 1) : list'[k] = x
      <3>1. PICK q \in 1..L : list[q] = x
        BY <2>2 DEF InList, L
      <3>2. q # p
        BY <1>2, <2>2, <3>1
      <3>3. CASE q < p
        <4>1. q \in 1..(L - 1) /\ g(q) = q
          BY <1>2, <1>5, <3>3
        <4> QED  BY <1>6, <3>1, <4>1
      <3>4. CASE q > p
        <4>1. q - 1 \in 1..(L - 1) /\ g(q - 1) = q
          BY <1>2, <1>5, <3>4
        <4>2. list'[q - 1] = list[g(q - 1)]
          BY <1>6, <4>1
        <4> QED  BY <3>1, <4>1, <4>2
      <3> QED  BY <1>5, <3>2, <3>3, <3>4
    <2> QED  BY <2>1, <2>2
  <1>10. \A v \in Joined : local'[v] = IF v = t THEN Null ELSE local[v]
    OBVIOUS
  <1> HIDE DEF g
  <1>11. Listed'
    <2>1. \A k \in Single : cached'[k] # Null =>
            \E q \in 1..(L - 1) : list'[q] = cached'[k]
      BY <1>9 DEF Listed, Apart
    <2>2. \A v \in Joined : local'[v] # Null =>
            \E q \in 1..(L - 1) : list'[q] = local'[v]
      BY <1>9, <1>10 DEF Listed, Apart
    <2> QED  BY <1>7, <1>8, <2>1, <2>2 DEF Listed, InList
  <1>12. Apart'
    BY <1>10 DEF Apart
  <1>13. Resting'
    <2>1. \A x \in 1..Len(stmts) :
            (~ \E k \in 1..(L - 1) : list'[k] = x) => stmts[x].st # "row"
      BY <1>9 DEF Resting
    <2> QED  BY <1>7, <2>1 DEF Resting, InList
  <1> QED  BY <1>11, <1>12, <1>13

LEMMA SteppedIs ==
  ASSUME stmts \in Seq(Stmt), NEW s \in 1..Len(stmts), NEW st
  PROVE  /\ Len(Stepped(s, st)) = Len(stmts)
         /\ \A i \in 1..Len(stmts) :
              /\ Stepped(s, st)[i].st = IF i = s THEN st ELSE stmts[i].st
              /\ Stepped(s, st)[i].finalized = stmts[i].finalized
  <1>1. stmts \in [1..Len(stmts) -> Stmt] /\ Len(stmts) \in Nat
    OBVIOUS
  <1>2. DOMAIN Stepped(s, st) = 1..Len(stmts)
    BY <1>1 DEF Stepped
  <1>3. Len(Stepped(s, st)) = Len(stmts)
    BY <1>1, <1>2 DEF Stepped
  <1>4. \A i \in 1..Len(stmts) :
          /\ Stepped(s, st)[i].st = IF i = s THEN st ELSE stmts[i].st
          /\ Stepped(s, st)[i].finalized = stmts[i].finalized
    BY <1>1 DEF Stepped, Stmt
  <1> QED  BY <1>3, <1>4

(* Only a statement in the list is stepped.                                *)
LEMMA StepRests ==
  ASSUME Listed, Apart, Resting, stmts \in Seq(Stmt), UNCHANGED <<list, cached>>,
         NEW s \in 1..Len(stmts), InList(s), NEW st, stmts' = Stepped(s, st),
         \A t \in Joined : local'[t] \in {local[t], Null}
  PROVE  Listed' /\ Apart' /\ Resting'
  <1>1. /\ Len(stmts') = Len(stmts)
        /\ \A i \in 1..Len(stmts) :
             /\ stmts'[i].st = IF i = s THEN st ELSE stmts[i].st
             /\ stmts'[i].finalized = stmts[i].finalized
    BY SteppedIs
  <1>2. Resting'
    BY <1>1 DEF Resting, InList
  <1> QED  BY <1>1, <1>2, ListKept

LEMMA NothingRests ==
  ASSUME Listed, Apart, Resting, UNCHANGED <<list, stmts>>,
         \A k \in Single : cached'[k] \in {cached[k], Null},
         \A t \in Joined : local'[t] \in {local[t], Null}
  PROVE  Listed' /\ Apart' /\ Resting'
  <1>1. Resting'
    BY DEF Resting, InList
  <1> QED  BY <1>1, ListKept

-----------------------------------------------------------------------------
(* Where the pointers of parse_db_C_CR_Toll stand *)

LEMMA LocalsReturn ==
  ASSUME Return
  PROVE  Locals' /\ \A t \in Joined : local'[t] \in {local[t], Null}
  <1>1. pc' = "idle" /\ local' = NoLocals
    BY DEF Return
  <1> QED  BY <1>1 DEF Locals, NoLocals, InLoop

LEMMA LocalsStep ==
  ASSUME Locals, Apart, stmts \in Seq(Stmt), UNCHANGED local,
         local \in [Joined -> Pointer], NEW u \in Joined,
         local[u] \in 1..Len(stmts), NEW st, stmts' = Stepped(local[u], st),
         pc' \in InLoop \cup {"remove"}, st = "row" => MayBeOnRow(u, pc'),
         \A t \in Joined \ {u} : MayBeOnRow(t, pc) => MayBeOnRow(t, pc')
  PROVE  Locals'
  <1>1. \A i \in 1..Len(stmts) :
          stmts'[i].st = IF i = local[u] THEN st ELSE stmts[i].st
    BY SteppedIs
  <1>2. \A t \in Joined : local[t] # Null => local[t] \in 1..Len(stmts)
    BY DEF Pointer, Null
  <1>3. ASSUME NEW t \in Joined, local'[t] # Null, stmts'[local'[t]].st = "row"
        PROVE  MayBeOnRow(t, pc')
    <2>1. CASE t = u
      BY <1>1, <1>3, <2>1
    <2>2. CASE t # u
      <3>1. local[t] # local[u] /\ local[t] # Null
        BY <1>3, <2>2 DEF Apart
      <3>2. stmts[local[t]].st = "row"
        BY <1>1, <1>2, <1>3, <3>1
      <3> QED  BY <2>2, <3>1, <3>2 DEF Locals
    <2> QED  BY <2>1, <2>2
  <1>4. \A t : MayBeOnRow(t, pc)' <=> MayBeOnRow(t, pc')
    BY DEF MayBeOnRow
  <1> QED  BY <1>3, <1>4 DEF Locals

(* Nothing changes for the statements that there were.                     *)
LEMMA LocalsKept ==
  ASSUME Locals, local \in [Joined -> Pointer],
         \A i \in 1..Len(stmts) : stmts'[i] = stmts[i],
         \A t \in Joined : \/ local'[t] \in {local[t], Null}
                           \/ stmts'[local'[t]].st # "row",
         pc' \in InLoop \cup {"remove"},
         \A t \in Joined : local[t] # Null /\ MayBeOnRow(t, pc)
                             => MayBeOnRow(t, pc')
  PROVE  Locals'
  <1>1. \A t \in Joined : local[t] # Null => local[t] \in 1..Len(stmts)
    BY DEF Pointer, Null
  <1>2. ASSUME NEW t \in Joined, local'[t] # Null, stmts'[local'[t]].st = "row"
        PROVE  MayBeOnRow(t, pc')
    BY <1>1, <1>2 DEF Locals
  <1>3. \A t : MayBeOnRow(t, pc)' <=> MayBeOnRow(t, pc')
    BY DEF MayBeOnRow
  <1> QED  BY <1>2, <1>3 DEF Locals

(* Outside of parse_db_C_CR_Toll its pointers are null.                    *)
LEMMA LocalsOut ==
  ASSUME Locals, UNCHANGED local, pc \notin InLoop \cup {"remove"},
         pc' \notin InLoop \cup {"remove"}
  PROVE  Locals'
  BY DEF Locals, NoLocals

LEMMA Created ==
  ASSUME stmts \in Seq(Stmt), NEW t, Create(t)
  PROVE  /\ Len(stmts) \in Nat
         /\ \A i \in 1..Len(stmts) : stmts'[i] = stmts[i]
         /\ stmts'[Len(stmts) + 1].st = "ready"
  <1> DEFINE e == [db |-> m_db, table |-> t, st |-> "ready", finalized |-> 0]
  <1>1. stmts' = Append(stmts, e) /\ e.st = "ready"
    BY DEF Create
  <1> HIDE DEF e
  <1> QED  BY <1>1

(* Where no statement but that of C may be on a row.                       *)
LEMMA NoRows ==
  ASSUME NEW p, p \in {"C"} \cup Linked, NEW q \in InLoop
  PROVE  /\ \A t : MayBeOnRow(t, p) => MayBeOnRow(t, q)
         /\ \A t \in Linked : ~ MayBeOnRow(t, p)
         /\ \A t : t # "C" => ~ MayBeOnRow(t, p)
  BY RowPcs DEF MayBeOnRow, Linked

-----------------------------------------------------------------------------
LEMMA LiveIs ==
  ASSUME Live
  PROVE  /\ PointersOk /\ stmts \in Seq(Stmt) /\ Len(stmts) \in Nat
         /\ local \in [Joined -> Pointer] /\ cached \in [Single -> Pointer]
  BY DEF Live, PointersOk, StmtsOfDb

LEMMA BeginTidy ==
  ASSUME Live, Tidy, NEW path, NEW kind,
         NEW start \in {"idle", "insert", "select", "selectC"},
         Begin(path, kind, start)
  PROVE  Tidy'
  <1>1. /\ UNCHANGED <<stmts, list, cached, local>>
        /\ pc = "idle" /\ pc' \in {pc, start}
    BY DEF Begin
  <1>2. Locals'
    BY <1>1, LocalsOut DEF Tidy, InLoop
  <1> QED  BY <1>1, <1>2, NothingRests DEF Tidy

LEMMA InsertTidy ==
  ASSUME Live, Tidy, Insert
  PROVE  Tidy'
  <1>1. /\ Return /\ UNCHANGED cached /\ Locals'
        /\ \A t \in Joined : local'[t] \in {local[t], Null}
    BY LocalsReturn DEF Insert
  <1>2. CASE Create("insert")
    BY <1>1, <1>2, LiveIs, ListGrown DEF Tidy
  <1>3. CASE CreateNull
    BY <1>1, <1>3, NothingRests DEF Tidy, CreateNull
  <1> QED  BY <1>2, <1>3 DEF Insert

LEMMA SelectTidy ==
  ASSUME Live, Tidy, Select
  PROVE  Tidy'
  <1> DEFINE k == call.kind
  <1>1. k \in Single /\ cached \in [Single -> Pointer]
    BY LiveIs DEF Select, Live, CallOk
  <1>2. Locals' /\ \A t \in Joined : local'[t] \in {local[t], Null}
    <2>1. CASE Return
      BY <2>1, LocalsReturn
    <2>2. CASE pc' = "rows" /\ UNCHANGED <<call, local>>
      <3>1. pc = "select"
        BY DEF Select
      <3> QED  BY <2>2, <3>1, LocalsOut DEF Tidy, InLoop
    <2> QED  BY <2>1, <2>2 DEF Select
  <1>3. CASE Create(k) /\ cached' = [cached EXCEPT ![k] = Len(stmts) + 1]
    <2>1. \A l \in Single : \/ cached'[l] = cached[l]
                            \/ l = k /\ cached'[l] = Len(stmts) + 1
      BY <1>1, <1>3
    <2> QED  BY <1>2, <1>3, <2>1, LiveIs, ListGrown DEF Tidy
  <1>4. CASE CreateNull /\ cached' = [cached EXCEPT ![k] = Null]
    <2>1. \A l \in Single : cached'[l] \in {cached[l], Null}
      BY <1>1, <1>4
    <2> QED  BY <1>2, <1>4, <2>1, NothingRests DEF Tidy, CreateNull
  <1>5. CASE UNCHANGED <<stmts, list, cached>>
    BY <1>2, <1>5, NothingRests DEF Tidy
  <1> QED  BY <1>3, <1>4, <1>5 DEF Select

LEMMA NoFileTidy ==
  ASSUME Live, Tidy, NoFile \/ Throw
  PROVE  Tidy'
  <1>1. Return /\ UNCHANGED <<stmts, list, cached>>
    BY DEF NoFile, Throw
  <1> QED  BY <1>1, LocalsReturn, NothingRests DEF Tidy

LEMMA RowTidy ==
  ASSUME Live, Tidy, Row \/ LastRow
  PROVE  Tidy'
  <1> DEFINE s == cached[call.kind]
  <1>1. /\ pc = "rows" /\ UNCHANGED <<list, cached>>
        /\ \E st : stmts' = Stepped(s, st)
    BY DEF Row, LastRow
  <1>2. s \in 1..Len(stmts) /\ InList(s)
    BY <1>1, Cached DEF Live, CallOk, Tidy, Listed
  <1>3. Locals' /\ \A t \in Joined : local'[t] \in {local[t], Null}
    <2>1. CASE Row
      <3>1. pc' = pc /\ local' = local
        BY <2>1 DEF Row
      <3> QED  BY <1>1, <3>1, LocalsOut DEF Tidy, InLoop
    <2>2. CASE LastRow
      BY <2>2, LocalsReturn DEF LastRow
    <2> QED  BY <2>1, <2>2
  <1> HIDE DEF s
  <1> QED  BY <1>1, <1>2, <1>3, LiveIs, StepRests DEF Tidy

LEMMA SelectCTidy ==
  ASSUME Live, Tidy, SelectC
  PROVE  Tidy'
  <1>1. pc = "selectC" /\ UNCHANGED cached
    BY DEF SelectC
  <1>2. CASE /\ Create("C") /\ local' = [local EXCEPT !["C"] = Len(stmts) + 1]
             /\ pc' = "C"
    <2>1. local = NoLocals
      BY <1>1 DEF Tidy, Locals, InLoop
    <2>2. \A v \in Joined : \/ local'[v] \in {local[v], Null}
                            \/ v = "C" /\ local'[v] = Len(stmts) + 1
      BY <1>2, LiveIs
    <2>3. Listed' /\ Apart' /\ Resting'
      BY <1>1, <1>2, <2>2, LiveIs, ListGrown DEF Tidy
    <2>4. \A v \in Joined : ~ (local[v] # Null)
      BY <2>1 DEF NoLocals
    <2>5. Locals'
      BY <1>2, <2>2, <2>4, LiveIs, Created, LocalsKept DEF Tidy, InLoop
    <2> QED  BY <2>3, <2>5 DEF Tidy
  <1>3. CASE CreateNull /\ Return
    BY <1>1, <1>3, LocalsReturn, NothingRests DEF Tidy, CreateNull
  <1> QED  BY <1>2, <1>3 DEF SelectC

(* A step of one of the four statements.                                   *)
LEMMA JoinTidy ==
  ASSUME Live, Tidy, UNCHANGED <<list, cached, local>>, NEW u \in Joined,
         local[u] # Null, NEW st, stmts' = Stepped(local[u], st),
         pc' \in InLoop \cup {"remove"}, st = "row" => MayBeOnRow(u, pc'),
         \A t \in Joined \ {u} : MayBeOnRow(t, pc) => MayBeOnRow(t, pc')
  PROVE  Tidy'
  <1>1. local[u] \in 1..Len(stmts) /\ InList(local[u])
    BY LiveIs DEF Pointer, Null, Tidy, Listed
  <1>2. \A t \in Joined : local'[t] \in {local[t], Null}
    OBVIOUS
  <1>3. Listed' /\ Apart' /\ Resting'
    BY <1>1, <1>2, LiveIs, StepRests DEF Tidy
  <1>4. Locals'
    BY <1>1, LiveIs, LocalsStep DEF Tidy
  <1> QED  BY <1>3, <1>4 DEF Tidy

LEMMA RowCTidy ==
  ASSUME Live, Tidy, RowC \/ EndOfC
  PROVE  Tidy'
  <1>1. /\ pc = "C" /\ UNCHANGED <<list, cached, local>>
        /\ local["C"] # Null /\ "C" \in Joined
    BY DEF RowC, EndOfC, Live, CallOk, InLoop, Joined
  <1>2. \A t \in Joined \ {"C"} : ~ MayBeOnRow(t, pc)
    BY <1>1, NoRows DEF InLoop
  <1>3. CASE RowC
    <2>1. stmts' = Stepped(local["C"], "row") /\ pc' \in {"CR", "Toll_ETA"}
      BY <1>3 DEF RowC
    <2>2. pc' \in InLoop /\ MayBeOnRow("C", pc')
      BY <2>1 DEF MayBeOnRow, InLoop
    <2> QED  BY <1>1, <1>2, <2>1, <2>2, JoinTidy
  <1>4. CASE EndOfC
    <2>1. stmts' = Stepped(local["C"], "done") /\ pc' = "remove"
      BY <1>4 DEF EndOfC
    <2> QED  BY <1>1, <1>2, <2>1, JoinTidy
  <1> QED  BY <1>3, <1>4

LEMMA JoinStartTidy ==
  ASSUME Live, Tidy, JoinStart
  PROVE  Tidy'
  <1>1. pc \in Linked /\ pc \in Joined /\ UNCHANGED cached
    BY RowPcs DEF JoinStart, Linked, Joined
  <1>2. CASE /\ Create(pc) /\ local' = [local EXCEPT ![pc] = Len(stmts) + 1]
             /\ pc' = InRows[pc]
    <2>1. pc' \in InLoop
      BY <1>1, <1>2, LinkedPcs
    <2>2. \A v \in Joined : \/ local'[v] \in {local[v], Null}
                            \/ v = pc /\ local'[v] = Len(stmts) + 1
      BY <1>2, LiveIs
    <2>3. Listed' /\ Apart' /\ Resting'
      BY <1>1, <1>2, <2>2, LiveIs, ListGrown DEF Tidy
    <2>4. \A t : MayBeOnRow(t, pc) => MayBeOnRow(t, pc')
      BY <1>1, <2>1, NoRows
    <2>5. Locals'
      BY <1>2, <2>1, <2>2, <2>4, LiveIs, Created, LocalsKept DEF Tidy
    <2> QED  BY <2>3, <2>5 DEF Tidy
  <1>3. CASE CreateNull /\ UNCHANGED local /\ pc' \in After(pc)
    <2>1. pc' \in InLoop
      BY <1>1, <1>3, LinkedPcs
    <2>2. \A t : MayBeOnRow(t, pc) => MayBeOnRow(t, pc')
      BY <1>1, <2>1, NoRows
    <2>3. Locals'
      BY <1>3, <2>1, <2>2, LiveIs, LocalsKept DEF Tidy, CreateNull
    <2> QED  BY <1>1, <1>3, <2>3, NothingRests DEF Tidy, CreateNull
  <1>4. CASE /\ local[pc] # Null /\ stmts' = Stepped(local[pc], "ready")
             /\ pc' = InRows[pc] /\ UNCHANGED <<list, local>>
    <2>1. pc' \in InLoop
      BY <1>1, <1>4, LinkedPcs
    <2>2. \A t : MayBeOnRow(t, pc) => MayBeOnRow(t, pc')
      BY <1>1, <2>1, NoRows
    <2> QED  BY <1>1, <1>4, <2>1, <2>2, JoinTidy
  <1> QED  BY <1>2, <1>3, <1>4 DEF JoinStart

LEMMA JoinRowTidy ==
  ASSUME Live, Tidy, NEW u \in Joined \ {"C"}, JoinRow(u) \/ JoinEnd(u)
  PROVE  Tidy'
  <1>1. /\ pc = InRows[u] /\ UNCHANGED <<list, cached, local>>
        /\ u \in Linked /\ local[u] # Null
    BY RowPcs DEF JoinRow, JoinEnd, Live, CallOk
  <1>2. pc \in InLoop
    BY <1>1, InRowsOf
  <1>3. CASE JoinRow(u)
    <2>1. stmts' = Stepped(local[u], "row") /\ pc' = pc
      BY <1>3 DEF JoinRow
    <2>2. MayBeOnRow(u, pc')
      BY <1>1, <2>1 DEF MayBeOnRow
    <2> QED  BY <1>1, <1>2, <2>1, <2>2, JoinTidy
  <1>4. CASE JoinEnd(u)
    <2>1. stmts' = Stepped(local[u], "done") /\ pc' \in InLoop
      BY <1>1, <1>4, LinkedPcs DEF JoinEnd
    <2>2. \A t \in Joined \ {u} : MayBeOnRow(t, pc) => MayBeOnRow(t, pc')
      BY <1>1, <2>1, InRowsInjective DEF MayBeOnRow
    <2> QED  BY <1>1, <2>1, <2>2, JoinTidy
  <1> QED  BY <1>3, <1>4

LEMMA RemoveTidy ==
  ASSUME Live, Tidy, Remove
  PROVE  Tidy'
  <1>1. pc = "remove" /\ UNCHANGED <<stmts, cached>>
    BY DEF Remove
  <1>2. CASE Return /\ UNCHANGED list
    BY <1>1, <1>2, LocalsReturn, NothingRests DEF Tidy
  <1>3. ASSUME NEW t \in Joined, local[t] # Null, list' = Removed(local[t]),
               local' = [local EXCEPT ![t] = Null], pc' = pc
        PROVE  Tidy'
    <2>1. \A u \in Joined : ~ MayBeOnRow(u, pc)
      BY <1>1, RowPcs DEF MayBeOnRow, InLoop, Linked
    <2>2. stmts[local[t]].st # "row"
      BY <1>3, <2>1 DEF Tidy, Locals
    <2>3. Listed' /\ Apart' /\ Resting'
      BY <1>1, <1>3, <2>2, LiveIs, ListShrunk DEF Tidy
    <2>4. \A u \in Joined : local'[u] \in {local[u], Null}
      BY <1>3, LiveIs
    <2>5. Locals'
      BY <1>1, <1>3, <2>1, <2>4, LiveIs, LocalsKept DEF Tidy
    <2> QED  BY <2>3, <2>5 DEF Tidy
  <1> DEFINE left == {n \in 1..4 : local[Order[n]] # Null}
             m    == CHOOSE n \in left : \A k \in left : n <= k
  <1>4. left # {} => Order[m] \in Joined /\ local[Order[m]] # Null
    <2> HAVE left # {}
    <2>1. \E n \in left : \A k \in left : n <= k
      <3>1. \A n \in left : n = 1 \/ n = 2 \/ n = 3 \/ n = 4
        OBVIOUS
      <3>2. left # {}
        OBVIOUS
      <3> HIDE DEF left
      <3>3. CASE 1 \in left
        BY <3>1, <3>3
      <3>4. CASE 1 \notin left /\ 2 \in left
        BY <3>1, <3>4
      <3>5. CASE 1 \notin left /\ 2 \notin left /\ 3 \in left
        BY <3>1, <3>5
      <3>6. CASE 1 \notin left /\ 2 \notin left /\ 3 \notin left
        <4>1. 4 \in left
          BY <3>1, <3>2, <3>6
        <4> QED  BY <3>1, <3>6, <4>1
      <3> QED  BY <3>3, <3>4, <3>5, <3>6
    <2>2. m \in left
      BY <2>1
    <2>3. \A n \in 1..4 : Order[n] \in Joined
      BY DEF Order, Joined
    <2> HIDE DEF m
    <2> QED  BY <2>2, <2>3
  <1> QED  BY <1>2, <1>3, <1>4 DEF Remove

-----------------------------------------------------------------------------
(* Types, and what is left when the object is gone *)

Kinds == Single \cup {"C_CR_Toll", "insert", "none"}

(* What is open, what a call in progress is, and how many there were.      *)
CallType ==
  /\ m_db \in Paths \cup {Mem, NoDb}
  /\ call.path \in Paths \cup {Mem, NoDb}
  /\ call.kind \in Kinds
  /\ calls \in 0..MaxCalls

(* A statement that is gone has been finalized once, or not at all and is  *)
(* at rest.                                                                *)
SessionInv ==
  /\ OwnInv
  /\ TypeOK
  /\ pc # "gone" => Tidy
  /\ GoneHoldsNothing

LEMMA CallTypeStep ==
  ASSUME TypeOK, Next
  PROVE  CallType'
  <1>1. CallType
    BY DEF TypeOK, CallType, Kinds
  <1>2. Return => call' = NoCall
    BY DEF Return
  <1>3. NoCall.path = NoDb /\ NoCall.kind = "none"
    BY DEF NoCall
  <1>4. ASSUME NEW path \in Paths \cup {Mem}, NEW kind \in Kinds, NEW start,
               Begin(path, kind, start)
        PROVE  CallType'
    <2>1. calls' = calls + 1 /\ calls < MaxCalls
      BY <1>4 DEF Begin
    <2>2. calls' \in 0..MaxCalls
      BY <1>1, <2>1, MaxCallsAssumption DEF CallType
    <2>3. /\ call' \in {call, NoCall, [path |-> path, kind |-> kind]}
          /\ m_db' \in {m_db, path}
      BY <1>4 DEF Begin
    <2> QED  BY <1>1, <1>3, <2>2, <2>3 DEF CallType, Kinds
  <1>5. CASE ImportMid \/ Combine
    BY <1>4, <1>5 DEF ImportMid, Combine, Kinds
  <1>6. ASSUME NEW p \in Paths, ParseDb(p)
        PROVE  CallType'
    <2>1. KindOf[p] \in Kinds
      BY PathsAssumption DEF Kinds
    <2> QED  BY <1>4, <1>6, <2>1 DEF ParseDb
  <1>7. ASSUME calls' = calls, m_db' \in {m_db, NoDb}, call' = call \/ Return
        PROVE  CallType'
    BY <1>1, <1>2, <1>3, <1>7 DEF CallType, Kinds
  <1>8. CASE Insert \/ Select \/ NoFile \/ Row \/ LastRow \/ SelectC \/ RowC
    BY <1>7, <1>8 DEF Insert, Select, NoFile, Row, LastRow, SelectC, RowC
  <1>9. CASE EndOfC \/ JoinStart \/ Remove \/ Throw \/ Destroy \/ Gone
    BY <1>7, <1>9 DEF EndOfC, JoinStart, Remove, Throw, Destroy, Gone, vars
  <1>10. ASSUME NEW t \in Joined \ {"C"}, JoinRow(t) \/ JoinEnd(t)
         PROVE  CallType'
    BY <1>7, <1>10 DEF JoinRow, JoinEnd
  <1> QED  BY <1>5, <1>6, <1>8, <1>9, <1>10 DEF Next

(* The pieces are the whole.                                               *)
LEMMA TypePieces ==
  ASSUME Live, Tidy, CallType
  PROVE  TypeOK
  <1>1. pc \in {"idle", "gone", "insert", "select", "rows", "selectC", "remove"}
               \cup Joined \cup {InRows[t] : t \in DOMAIN InRows}
    <2>1. {InRows[t] : t \in DOMAIN InRows} =
            {"CR rows", "Toll_ETA rows", "Toll_Pattern rows"}
      BY RowPcs DEF Linked
    <2> QED  BY <2>1 DEF Live, CallOk, Pcs, InJoin, InLoop, Joined
  <1>2. stmts \in Seq(Stmt) /\ list \in Seq(1..Len(stmts))
    BY LiveIs DEF Tidy, Listed
  <1> QED  BY <1>1, <1>2, LiveIs DEF CallType, Kinds, TypeOK

LEMMA ActionTidy ==
  ASSUME Live, Tidy, Next, ~ Gone, ~ Destroy
  PROVE  Tidy'
  <1>1. CASE ImportMid \/ Combine
    BY <1>1, BeginTidy DEF ImportMid, Combine
  <1>2. ASSUME NEW p \in Paths, ParseDb(p)
        PROVE  Tidy'
    BY <1>2, BeginTidy DEF ParseDb
  <1>3. CASE Insert \/ Select \/ NoFile \/ Throw \/ Row \/ LastRow
    BY <1>3, InsertTidy, SelectTidy, NoFileTidy, RowTidy
  <1>4. CASE SelectC \/ RowC \/ EndOfC \/ JoinStart \/ Remove
    BY <1>4, SelectCTidy, RowCTidy, JoinStartTidy, RemoveTidy
  <1>5. ASSUME NEW t \in Joined \ {"C"}, JoinRow(t) \/ JoinEnd(t)
        PROVE  Tidy'
    BY <1>5, JoinRowTidy
  <1> QED  BY <1>1, <1>2, <1>3, <1>4, <1>5 DEF Next

(* Only Destroy ends the life of the object.                               *)
LEMMA StaysThere ==
  ASSUME TypeOK, Next, ~ Gone, ~ Destroy
  PROVE  pc # "gone" /\ pc' # "gone"
  <1>1. \A t \in Linked : InRows[t] # "gone" /\ t # "gone"
    BY RowPcs DEF Linked
  <1>2. \A t \in Linked : \A p \in After(t) : p # "gone"
    BY LinkedPcs DEF Joined
  <1>3. CASE ImportMid \/ Combine \/ \E p \in Paths : ParseDb(p)
    BY <1>3 DEF ImportMid, Combine, ParseDb, Begin
  <1>4. CASE Insert \/ Select \/ NoFile \/ Row \/ LastRow
    BY <1>4 DEF Insert, Select, NoFile, Row, LastRow, Return
  <1>5. CASE SelectC \/ RowC \/ EndOfC \/ Remove
    BY <1>5 DEF SelectC, RowC, EndOfC, Remove, Return
  <1>6. CASE JoinStart
    BY <1>1, <1>2, <1>6, RowPcs DEF JoinStart
  <1>7. CASE Throw
    BY <1>7, OnRowPcs DEF Throw, Return
  <1>8. ASSUME NEW t \in Joined \ {"C"}, JoinRow(t) \/ JoinEnd(t)
        PROVE  pc # "gone" /\ pc' # "gone"
    BY <1>1, <1>2, <1>8, RowPcs DEF JoinRow, JoinEnd
  <1> QED  BY <1>3, <1>4, <1>5, <1>6, <1>7, <1>8 DEF Next

LEMMA DestroyGood ==
  ASSUME TypeOK, CallType', Tidy, Destroy
  PROVE  TypeOK' /\ GoneHoldsNothing' /\ pc' = "gone"
  <1> DEFINE N == Len(stmts)
             gone(s) == [stmts[s] EXCEPT !.finalized = @ + Times(s)]
  <1>1. /\ stmts' = [s \in 1..N |-> gone(s)] /\ list' = <<>> /\ pc' = "gone"
        /\ UNCHANGED <<cached, local>>
    BY DEF Destroy
  <1>2. N \in Nat /\ \A s \in 1..N : stmts[s] \in Stmt
    BY DEF TypeOK
  <1>3. \A s : Times(s) \in {0, 1} /\ (Times(s) = 0 => ~ InList(s))
    BY TimesInList DEF Tidy
  <1>4. ASSUME NEW s \in 1..N
        PROVE  /\ gone(s) \in Stmt /\ gone(s).st = stmts[s].st
               /\ gone(s).finalized = Times(s)
    <2>1. stmts[s].finalized = 0
      BY DEF Tidy, Resting
    <2>2. stmts[s] \in Stmt /\ Times(s) \in {0, 1}
      BY <1>2, <1>3
    <2> QED  BY <2>1, <2>2 DEF Stmt
  <1> HIDE DEF gone
  <1>5. stmts' \in Seq(Stmt) /\ Len(stmts') = N
    BY <1>1, <1>2, <1>4
  <1>6. TypeOK'
    <2>1. Pointer' = Pointer
      BY <1>5 DEF Pointer
    <2> QED  BY <1>1, <1>5, <2>1 DEF TypeOK, CallType, Kinds
  <1>7. GoneHoldsNothing'
    <2>1. \A s \in 1..N : \/ stmts'[s].finalized = 1
                          \/ stmts'[s].finalized = 0 /\ stmts'[s].st # "row"
      BY <1>1, <1>3, <1>4 DEF Tidy, Resting
    <2> QED  BY <1>5, <2>1 DEF GoneHoldsNothing
  <1> QED  BY <1>1, <1>6, <1>7

LEMMA SessionStep == SessionInv /\ [Next]_vars => SessionInv'
  <1> SUFFICES ASSUME SessionInv, [Next]_vars  PROVE SessionInv'
    OBVIOUS
  <1>1. OwnInv' /\ TypeOK
    BY OwnStep DEF SessionInv
  <1>2. CASE Gone \/ UNCHANGED vars
    <2>1. UNCHANGED <<m_db, stmts, list, cached, local, call, pc, calls, fetched>>
      BY <1>2 DEF Gone, vars
    <2>2. TypeOK' /\ GoneHoldsNothing'
      BY <2>1 DEF SessionInv, TypeOK, GoneHoldsNothing, Pointer
    <2>3. Tidy' <=> Tidy
      BY <2>1 DEF Tidy, Listed, Apart, Resting, Locals, InList, MayBeOnRow
    <2> QED  BY <1>1, <2>1, <2>2, <2>3 DEF SessionInv
  <1>3. CASE Next /\ ~ Gone /\ ~ Destroy
    <2>1. pc # "gone" /\ pc' # "gone"
      BY <1>1, <1>3, StaysThere
    <2>2. Live /\ Tidy /\ Live'
      BY <1>1, <2>1 DEF SessionInv, OwnInv
    <2>3. Tidy'
      BY <1>3, <2>2, ActionTidy
    <2>4. TypeOK'
      <3>1. CallType'
        BY <1>1, <1>3, CallTypeStep
      <3>2. Live /\ Tidy /\ CallType => TypeOK
        BY TypePieces
      <3> QED  BY <2>2, <2>3, <3>1, TypePieces, PTL
    <2> QED  BY <1>1, <2>1, <2>3, <2>4 DEF SessionInv, GoneHoldsNothing
  <1>4. CASE Destroy
    <2>1. Tidy /\ CallType'
      BY <1>1, <1>4, CallTypeStep DEF Destroy, SessionInv, Next
    <2> QED  BY <1>1, <1>4, <2>1, DestroyGood DEF SessionInv
  <1> QED  BY <1>2, <1>3, <1>4

LEMMA SessionInit == Init => SessionInv
  <1> SUFFICES ASSUME Init  PROVE SessionInv
    OBVIOUS
  <1>1. OwnInv /\ Live /\ pc = "idle" /\ stmts = <<>>
    BY OwnInit DEF Init, OwnInv
  <1>2. /\ list = <<>> /\ local = NoLocals
        /\ \A k \in Single : cached[k] = Null
        /\ \A t \in Joined : local[t] = Null
    BY DEF Init, NoLocals
  <1>3. Tidy
    <2>1. Listed /\ Apart /\ Resting
      BY <1>1, <1>2 DEF Listed, Apart, Resting
    <2>2. Locals
      BY <1>1, <1>2 DEF Locals
    <2> QED  BY <2>1, <2>2 DEF Tidy
  <1>4. CallType
    BY MaxCallsAssumption DEF Init, CallType, Kinds, NoCall
  <1>5. TypeOK
    BY <1>1, <1>3, <1>4, TypePieces
  <1> QED  BY <1>1, <1>3, <1>5 DEF SessionInv, GoneHoldsNothing

LEMMA SessionGood ==
  SessionInv => TypeOK /\ InUseIsListed /\ GoneHoldsNothing
  <1> SUFFICES ASSUME SessionInv, pc # "gone"  PROVE InUseIsListed
    BY DEF SessionInv, InUseIsListed
  <1>1. Tidy /\ Listed
    BY DEF SessionInv, Tidy
  <1>2. \A k \in Single : cached[k] # Null => Times(cached[k]) = 1
    BY <1>1, TimesInList DEF Listed
  <1>3. \A t \in Joined : local[t] # Null => Times(local[t]) = 1
    BY <1>1, TimesInList DEF Listed
  <1> QED  BY <1>2, <1>3 DEF InUseIsListed

(* Every variable keeps its type: no pointer leads to a statement that was *)
(* never created, and the list holds no null pointer.                      *)
THEOREM TypeCorrect == Spec => []TypeOK
  BY SessionInit, SessionStep, SessionGood, PTL DEF Spec

(* Whatever calls are made and however they end, as long as the object     *)
(* lives every statement it has a pointer to is in the list exactly once.  *)
THEOREM PointersAreListed == Spec => []InUseIsListed
  BY SessionInit, SessionStep, SessionGood, PTL DEF Spec

(* An object that is gone has finalized each of its statements once, or    *)
(* has left it at rest: none twice, and none that still reads.             *)
THEOREM NothingIsHeld == Spec => []GoneHoldsNothing
  BY SessionInit, SessionStep, SessionGood, PTL DEF Spec
==============================================================================
