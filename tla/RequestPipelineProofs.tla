------------------------ MODULE RequestPipelineProofs ------------------------
(***************************************************************************)
(* Theorems about RequestPipeline, for every set of accounts, every        *)
(* initial balance and every set of submissions that PipelineAssumption    *)
(* allows.                                                                 *)
(***************************************************************************)
EXTENDS RequestPipeline, SequenceTheorems, SumTheorems, TLAPS

\* The facts about the constants that the steps below use.
LEMMA SubmissionType ==
  ASSUME NEW s \in Submissions
  PROVE  /\ s.rid \in RequestIds
         /\ s.rid \in TxIds
         /\ InLeg[s.rid] \in TxIds
         /\ InLeg[s.rid] # s.rid
         /\ s.kind \in Kinds
         /\ s.acct \in Accounts
         /\ s.to \in Accounts \cup {NoAccount}
         /\ s.amount \in Int
         /\ s # NoJob
         /\ s.kind # "transfer" => s.to = NoAccount
BY PipelineAssumption DEF Kinds

\* A new row leaves a journal of rows.
LEMMA AddRowType ==
  ASSUME NEW j \in [Accounts -> Seq(Row)], NEW a \in Accounts, NEW row \in Row
  PROVE  AddRow(j, a, row) \in [Accounts -> Seq(Row)]
BY DEF AddRow

\* A transaction keeps balances integers and journals sequences of rows.
LEMMA PostType ==
  ASSUME NEW s \in Submissions, TypeOK, Acceptable(s), PostTransaction(s)
  PROVE  balance' \in [Accounts -> Int] /\ journal' \in [Accounts -> Seq(Row)]
<1> USE SubmissionType
<1>1. CASE s.kind = "transfer"
  <2>1. s.acct \in Accounts /\ s.to \in Accounts
    BY <1>1 DEF Acceptable
  <2>2. balance' = TransferBalance(s) /\ journal' = TransferRows(s)
    BY <1>1 DEF PostTransaction
  <2>3. TransferBalance(s) \in [Accounts -> Int]
    BY <2>1 DEF TypeOK, TransferBalance, Debit
  <2>4. \A x, y \in Int :
          /\ TxRow("transfer_out", s.rid, s.amount, x, y, s.to) \in Row
          /\ TxRow("transfer_in", InLeg[s.rid], s.amount, x, y, s.acct) \in Row
    BY <2>1 DEF TxRow, Row, RowKinds
  <2>5. journal' \in [Accounts -> Seq(Row)]
    <3> DEFINE out == TransferBalance(s)[s.acct]
               in  == TransferBalance(s)[s.to]
               outRow == TxRow("transfer_out", s.rid, s.amount, out + s.amount, out, s.to)
               inRow  == TxRow("transfer_in", InLeg[s.rid], s.amount, in - s.amount,
                               in, s.acct)
               first == AddRow(journal, s.acct, outRow)
    <3>1. out \in Int /\ in \in Int
      BY <2>1, <2>3
    <3>2. outRow \in Row /\ inRow \in Row
      BY <2>4, <3>1
    <3> HIDE DEF out, in, outRow, inRow
    <3>3. first \in [Accounts -> Seq(Row)]
      BY <3>2, AddRowType DEF TypeOK
    <3>4. AddRow(first, s.to, inRow) \in [Accounts -> Seq(Row)]
      BY <2>1, <3>2, <3>3, AddRowType
    <3> QED BY <2>2, <3>4 DEF TransferRows, out, in, outRow, inRow
  <2> QED BY <2>2, <2>3, <2>5
<1>2. CASE s.kind # "transfer"
  <2>1. balance' = OneBalance(s) /\ journal' = OneRow(s)
    BY <1>2 DEF PostTransaction
  <2>2. OneBalance(s) \in [Accounts -> Int]
    BY DEF TypeOK, OneBalance, Debit
  <2>3. \A x, y \in Int : TxRow(s.kind, s.rid, s.amount, x, y, NoAccount) \in Row
    BY <1>2 DEF TxRow, Row, RowKinds, Kinds
  <2>4. journal' \in [Accounts -> Seq(Row)]
    BY <2>1, <2>2, <2>3, AddRowType DEF TypeOK, OneRow
  <2> QED BY <2>1, <2>2, <2>4
<1> QED BY <1>1, <1>2

\* Every step keeps the types.
LEMMA TypeStep == TypeOK /\ [Next]_vars => TypeOK'
<1> SUFFICES ASSUME TypeOK, [Next]_vars PROVE TypeOK'
  OBVIOUS
<1> USE SubmissionType
<1>1. ASSUME NEW s \in Submissions, Create(s) PROVE TypeOK'
  BY <1>1 DEF TypeOK, Create, Statuses, Steps
<1>2. ASSUME NEW s \in Submissions, Duplicate(s) PROVE TypeOK'
  BY <1>2 DEF TypeOK, Duplicate
<1>3. CASE Enqueue
  <2>1. job \in Submissions
    BY <1>3 DEF TypeOK, Enqueue
  <2> QED BY <1>3, <2>1 DEF TypeOK, Enqueue, Steps
<1>4. CASE Take
  <2>1. Head(queue) \in Submissions /\ Tail(queue) \in Seq(Submissions)
    BY <1>4, HeadTailProperties DEF TypeOK, Take
  <2> QED BY <1>4, <2>1 DEF TypeOK, Take, Statuses, Steps
<1>5. CASE Decline
  BY <1>5 DEF TypeOK, Decline, Steps
<1>6. CASE Apply
  <2>1. job \in Submissions
    BY <1>6 DEF TypeOK, Apply
  <2>2. balance' \in [Accounts -> Int] /\ journal' \in [Accounts -> Seq(Row)]
    BY <1>6, <2>1, PostType DEF Apply
  <2>3. job.rid \in RequestIds
    BY <2>1
  <2> QED BY <1>6, <2>1, <2>2, <2>3 DEF TypeOK, Apply, Steps
<1>7. CASE RollBack
  <2>1. job \in Submissions
    BY <1>7 DEF TypeOK, RollBack
  <2>2. job.rid \in RequestIds
    BY <2>1
  <2> QED BY <1>7, <2>1, <2>2 DEF TypeOK, RollBack, Steps
<1>8. CASE Finish
  <2>1. job \in Submissions
    BY <1>8 DEF TypeOK, Finish
  <2>2. status' \in [RequestIds -> Statuses]
    BY <1>8 DEF TypeOK, Finish, Statuses
  <2>3. succeeded' \subseteq Submissions
    BY <1>8, <2>1 DEF TypeOK, Finish
  <2> QED BY <1>8, <2>2, <2>3 DEF TypeOK, Finish, Steps
<1>9. CASE Crash
  BY <1>9 DEF TypeOK, Crash, Steps
<1>10. ASSUME NEW a \in Accounts, NEW v \in PeerBalances, ReplicatedWrite(a, v)
       PROVE  TypeOK'
  <2> DEFINE new == IF v < 0 THEN 0 ELSE v
             row == TxRow("replicated", NoAccount, 0, balance[a], new, NoAccount)
  <2>1. new \in Int
    BY PipelineAssumption
  <2>2. row \in Row
    BY <2>1 DEF TypeOK, TxRow, Row, RowKinds
  <2>3. AddRow(journal, a, row) \in [Accounts -> Seq(Row)]
    BY <2>2, AddRowType DEF TypeOK
  <2> QED BY <1>10, <2>1, <2>3 DEF TypeOK, ReplicatedWrite
<1>11. CASE UNCHANGED vars
  BY <1>11 DEF TypeOK, vars
<1> QED
  BY <1>1, <1>2, <1>3, <1>4, <1>5, <1>6, <1>7, <1>8, <1>9, <1>10, <1>11
  DEF Next, Client, Server, Peer

\* The variables of the pipeline keep their types.
THEOREM PipelineTypeOK == Spec => []TypeOK
<1>1. Init => TypeOK
  <2>1. <<>> \in Seq(Row) /\ <<>> \in Seq(Submissions)
    BY EmptySeq
  <2> QED BY <2>1, PipelineAssumption DEF Init, TypeOK, Statuses, Steps
<1> QED BY <1>1, TypeStep, PTL DEF Spec

-----------------------------------------------------------------------------

\* A row that starts from the balance keeps the statement explained, and so
\* does a row of a self-transfer.
LEMMA AppendExplained ==
  ASSUME NEW a \in Accounts, NEW rows \in Seq(Row), NEW b \in Int, NEW row \in Row,
         Explains(a, rows, b), SelfTransfer(a, row) \/ row.before = b
  PROVE  Explains(a, Append(rows, row), row.after)
<1> DEFINE new == Append(rows, row)
<1>1. /\ Len(new) = Len(rows) + 1
      /\ \A i \in 1..Len(rows) : new[i] = rows[i]
      /\ new[Len(rows) + 1] = row
      /\ DOMAIN new = 1..(Len(rows) + 1)
      /\ DOMAIN rows = 1..Len(rows)
      /\ Len(rows) \in Nat
  BY AppendProperties, LenProperties
<1> HIDE DEF new
<1>2. \A i \in 1..(Len(rows) + 1) : PreviousAfter(a, new, i) = PreviousAfter(a, rows, i)
  BY <1>1 DEF PreviousAfter
<1>3. PreviousAfter(a, new, Len(new) + 1) = row.after
  BY <1>1 DEF PreviousAfter
<1>4. ASSUME NEW i \in 1..Len(rows), ~SelfTransfer(a, new[i])
      PROVE  new[i].before = PreviousAfter(a, new, i)
  <2>1. new[i] = rows[i] /\ i \in DOMAIN rows
    BY <1>1
  <2>2. rows[i].before = PreviousAfter(a, rows, i)
    BY <1>4, <2>1 DEF Explains
  <2> QED BY <1>1, <1>2, <2>1, <2>2
<1>5. ASSUME ~SelfTransfer(a, row)
      PROVE  row.before = PreviousAfter(a, new, Len(rows) + 1)
  BY <1>1, <1>2, <1>5 DEF Explains
<1>6. \A i \in DOMAIN new : ~SelfTransfer(a, new[i])
                             => new[i].before = PreviousAfter(a, new, i)
  BY <1>1, <1>4, <1>5
<1> QED BY <1>3, <1>6 DEF Explains, new

\* A transaction keeps every statement explained.
LEMMA PostExplained ==
  ASSUME NEW s \in Submissions, TypeOK, JournalExplainsBalance,
         Acceptable(s), PostTransaction(s)
  PROVE  JournalExplainsBalance'
<1> SUFFICES ASSUME NEW a \in Accounts PROVE Explains(a, journal'[a], balance'[a])
  BY DEF JournalExplainsBalance, Explains, PreviousAfter
<1> USE SubmissionType
<1>1. /\ journal[a] \in Seq(Row) /\ balance[a] \in Int
      /\ Explains(a, journal[a], balance[a])
  BY DEF TypeOK, JournalExplainsBalance
<1>2. CASE s.kind = "transfer"
  <2> DEFINE out == TransferBalance(s)[s.acct]
             in  == TransferBalance(s)[s.to]
             outRow == TxRow("transfer_out", s.rid, s.amount, out + s.amount, out, s.to)
             inRow  == TxRow("transfer_in", InLeg[s.rid], s.amount, in - s.amount,
                             in, s.acct)
  <2>1. s.to \in Accounts
    BY <1>2 DEF Acceptable
  <2>2. /\ balance' = TransferBalance(s)
        /\ journal' = AddRow(AddRow(journal, s.acct, outRow), s.to, inRow)
    BY <1>2 DEF PostTransaction, TransferRows
  <2>3. /\ out \in Int /\ in \in Int
        /\ s.acct # s.to => /\ out = balance[s.acct] - s.amount
                            /\ in = balance[s.to] + s.amount
        /\ s.acct = s.to => out = in
        /\ a \notin {s.acct, s.to} => balance'[a] = balance[a]
        /\ a = s.acct => balance'[a] = out
        /\ a = s.to => balance'[a] = in
    BY <2>1, <2>2 DEF TypeOK, TransferBalance, Debit
  <2>4. /\ outRow \in Row /\ inRow \in Row
        /\ outRow.before = out + s.amount /\ outRow.after = out
        /\ inRow.before = in - s.amount /\ inRow.after = in
        /\ s.acct = s.to => SelfTransfer(s.acct, outRow) /\ SelfTransfer(s.acct, inRow)
    BY <2>1, <2>3 DEF TxRow, Row, RowKinds, SelfTransfer
  <2> HIDE DEF out, in, outRow, inRow
  <2>5. /\ a \notin {s.acct, s.to} => journal'[a] = journal[a]
        /\ a = s.acct /\ s.acct # s.to => journal'[a] = Append(journal[a], outRow)
        /\ a = s.to /\ s.acct # s.to => journal'[a] = Append(journal[a], inRow)
        /\ a = s.acct /\ s.acct = s.to
             => journal'[a] = Append(Append(journal[a], outRow), inRow)
    BY <2>1, <2>2 DEF TypeOK, AddRow
  <2>6. CASE a \notin {s.acct, s.to}
    BY <1>1, <2>3, <2>5, <2>6
  <2>7. CASE a = s.acct /\ s.acct # s.to
    <3>1. outRow.before = balance[a]
      BY <1>1, <2>3, <2>4, <2>7
    <3>2. Explains(a, Append(journal[a], outRow), out)
      BY <1>1, <2>4, <3>1, AppendExplained
    <3> QED BY <2>3, <2>5, <2>7, <3>2
  <2>8. CASE a = s.to /\ s.acct # s.to
    <3>1. inRow.before = balance[a]
      BY <1>1, <2>3, <2>4, <2>8
    <3>2. Explains(a, Append(journal[a], inRow), in)
      BY <1>1, <2>4, <3>1, AppendExplained
    <3> QED BY <2>3, <2>5, <2>8, <3>2
  <2>9. CASE a = s.acct /\ s.acct = s.to
    <3>1. Explains(a, Append(journal[a], outRow), out)
      BY <1>1, <2>4, <2>9, AppendExplained
    <3>2. Append(journal[a], outRow) \in Seq(Row)
      BY <1>1, <2>4, AppendProperties
    <3>3. Explains(a, Append(Append(journal[a], outRow), inRow), in)
      BY <2>3, <2>4, <2>9, <3>1, <3>2, AppendExplained
    <3> QED BY <2>3, <2>5, <2>9, <3>3
  <2> QED BY <2>6, <2>7, <2>8, <2>9
<1>3. CASE s.kind # "transfer"
  <2> DEFINE after == OneBalance(s)[s.acct]
             row == TxRow(s.kind, s.rid, s.amount, balance[s.acct], after, NoAccount)
  <2>1. balance' = OneBalance(s) /\ journal' = AddRow(journal, s.acct, row)
    BY <1>3 DEF PostTransaction, OneRow
  <2>2. /\ after \in Int
        /\ a # s.acct => balance'[a] = balance[a]
        /\ balance'[s.acct] = after
    BY <2>1 DEF TypeOK, OneBalance, Debit
  <2>3. row \in Row /\ row.before = balance[s.acct] /\ row.after = after
    BY <1>3, <2>2 DEF TypeOK, TxRow, Row, RowKinds, Kinds
  <2> HIDE DEF after, row
  <2>4. /\ a # s.acct => journal'[a] = journal[a]
        /\ a = s.acct => journal'[a] = Append(journal[a], row)
    BY <2>1 DEF TypeOK, AddRow
  <2> QED BY <1>1, <2>2, <2>3, <2>4, AppendExplained
<1> QED BY <1>2, <1>3

\* A replicated write keeps every statement explained.
LEMMA ReplicatedExplained ==
  ASSUME NEW r \in Accounts, NEW v \in PeerBalances, TypeOK,
         JournalExplainsBalance, ReplicatedWrite(r, v)
  PROVE  JournalExplainsBalance'
<1> SUFFICES ASSUME NEW a \in Accounts PROVE Explains(a, journal'[a], balance'[a])
  BY DEF JournalExplainsBalance, Explains, PreviousAfter
<1> DEFINE new == IF v < 0 THEN 0 ELSE v
           row == TxRow("replicated", NoAccount, 0, balance[r], new, NoAccount)
<1>1. new \in Int
  BY PipelineAssumption
<1>2. row \in Row /\ row.before = balance[r] /\ row.after = new
  BY <1>1 DEF TypeOK, TxRow, Row, RowKinds
<1>3. balance' = [balance EXCEPT ![r] = new] /\ journal' = AddRow(journal, r, row)
  BY DEF ReplicatedWrite
<1> HIDE DEF new, row
<1>4. /\ a # r => journal'[a] = journal[a] /\ balance'[a] = balance[a]
      /\ a = r => journal'[a] = Append(journal[a], row) /\ balance'[a] = new
  BY <1>3 DEF TypeOK, AddRow
<1>5. journal[a] \in Seq(Row) /\ balance[a] \in Int /\ Explains(a, journal[a], balance[a])
  BY DEF TypeOK, JournalExplainsBalance
<1> QED BY <1>2, <1>4, <1>5, AppendExplained

\* The other steps leave balances and journals alone.
LEMMA LedgerSteps ==
  ASSUME TypeOK, [Next]_vars
  PROVE  \/ UNCHANGED <<balance, journal>>
         \/ job \in Submissions /\ Apply
         \/ \E a \in Accounts, v \in PeerBalances : ReplicatedWrite(a, v)
<1>1. Apply => job \in Submissions
  BY DEF TypeOK, Apply
<1> QED
  BY <1>1 DEF Next, Client, Server, Peer, Create, Duplicate, Enqueue, Take, Decline,
              RollBack, Finish, Crash, vars

\* The rows of every account explain its balance, whatever interleaving, crash
\* or failed commit produced them.
THEOREM PipelineJournalExplainsBalance == Spec => []JournalExplainsBalance
<1>1. Init => JournalExplainsBalance
  <2> SUFFICES ASSUME Init, NEW a \in Accounts PROVE Explains(a, <<>>, InitialBalance[a])
    BY DEF Init, JournalExplainsBalance
  <2>1. Len(<<>>) = 0 /\ DOMAIN <<>> = {}
    BY EmptySeq
  <2> QED BY <2>1 DEF Explains, PreviousAfter
<1>2. TypeOK /\ JournalExplainsBalance /\ [Next]_vars => JournalExplainsBalance'
  <2> SUFFICES ASSUME TypeOK, JournalExplainsBalance, [Next]_vars
               PROVE  JournalExplainsBalance'
    OBVIOUS
  <2>1. CASE UNCHANGED <<balance, journal>>
    BY <2>1 DEF JournalExplainsBalance, Explains, PreviousAfter
  <2>2. CASE job \in Submissions /\ Apply
    BY <2>2, PostExplained DEF Apply
  <2>3. CASE \E a \in Accounts, v \in PeerBalances : ReplicatedWrite(a, v)
    BY <2>3, ReplicatedExplained
  <2> QED BY <2>1, <2>2, <2>3, LedgerSteps
<1> QED BY <1>1, <1>2, PipelineTypeOK, PTL DEF Spec

-----------------------------------------------------------------------------

\* No step of the server takes an account below zero.
THEOREM PipelineNoOverdraft == Spec => NoOverdraft
<1> DEFINE Step == \A a \in Accounts : balance'[a] < balance[a] => balance'[a] >= 0
<1>1. TypeOK /\ [Next]_vars => [Step]_vars
  <2> SUFFICES ASSUME TypeOK, [Next]_vars, NEW a \in Accounts, balance'[a] < balance[a]
               PROVE  balance'[a] >= 0
    OBVIOUS
  <2>1. CASE UNCHANGED <<balance, journal>>
    BY <2>1 DEF TypeOK
  <2>2. CASE job \in Submissions /\ Apply
    <3> USE SubmissionType
    <3>1. job.amount > 0 /\ Acceptable(job) /\ PostTransaction(job)
      BY <2>2 DEF Apply, Acceptable
    <3>2. CASE job.kind = "transfer"
      <4>1. job.to \in Accounts /\ balance[job.acct] >= job.amount
        BY <3>1, <3>2 DEF Acceptable, Affordable
      <4>2. balance' = TransferBalance(job)
        BY <3>1, <3>2 DEF PostTransaction
      <4>3. /\ job.acct \in Accounts /\ job.amount \in Int
            /\ balance \in [Accounts -> Int]
        BY <2>2 DEF TypeOK
      <4>4. \A b \in Accounts : balance'[b] < balance[b] =>
              b = job.acct /\ balance'[b] = balance[b] - job.amount
        BY <3>1, <4>1, <4>2, <4>3 DEF TransferBalance, Debit
      <4> QED BY <4>1, <4>3, <4>4
    <3>3. CASE job.kind = "withdraw"
      <4>1. balance[job.acct] >= job.amount
        BY <3>1, <3>3 DEF Acceptable, Affordable
      <4>2. balance' = OneBalance(job)
        BY <3>1, <3>3 DEF PostTransaction
      <4> QED BY <2>2, <3>3, <4>1, <4>2 DEF TypeOK, OneBalance, Debit
    <3>4. CASE job.kind = "deposit"
      <4>1. balance' = OneBalance(job)
        BY <3>1, <3>4 DEF PostTransaction
      <4> QED BY <2>2, <3>1, <3>4, <4>1 DEF TypeOK, OneBalance, Debit
    <3> QED BY <2>2, <3>2, <3>3, <3>4 DEF Kinds
  <2>3. CASE \E r \in Accounts, v \in PeerBalances : ReplicatedWrite(r, v)
    BY <2>3, PipelineAssumption DEF TypeOK, ReplicatedWrite
  <2> QED BY <2>1, <2>2, <2>3, LedgerSteps
<1> QED BY <1>1, PipelineTypeOK, PTL DEF Spec, NoOverdraft
-----------------------------------------------------------------------------

\* The rows of a journal with a new row.
LEMMA AddRowRows ==
  ASSUME NEW j \in [Accounts -> Seq(Row)], NEW a \in Accounts, NEW b \in Accounts,
         NEW row \in Row
  PROVE  RowsIn(AddRow(j, a, row), b) =
           RowsIn(j, b) \cup (IF b = a THEN {row} ELSE {})
<1>1. CASE b # a
  BY <1>1 DEF AddRow, RowsIn
<1>2. CASE b = a
  <2> DEFINE new == Append(j[b], row)
  <2>1. AddRow(j, a, row)[b] = new
    BY <1>2 DEF AddRow
  <2>2. /\ DOMAIN new = 1..(Len(j[b]) + 1)
        /\ \A i \in 1..Len(j[b]) : new[i] = j[b][i]
        /\ new[Len(j[b]) + 1] = row
        /\ DOMAIN j[b] = 1..Len(j[b]) /\ Len(j[b]) \in Nat
    BY AppendProperties, LenProperties
  <2> HIDE DEF new
  <2>3. {new[i] : i \in DOMAIN new} = {j[b][i] : i \in DOMAIN j[b]} \cup {row}
    <3>1. 1..(Len(j[b]) + 1) = 1..Len(j[b]) \cup {Len(j[b]) + 1}
      BY <2>2
    <3>2. DOMAIN new = DOMAIN j[b] \cup {Len(j[b]) + 1}
      BY <2>2, <3>1
    <3>3. \A i \in DOMAIN j[b] : new[i] = j[b][i]
      BY <2>2
    <3> QED BY <2>2, <3>2, <3>3
  <2> QED BY <1>2, <2>1, <2>3 DEF RowsIn
<1> QED BY <1>1, <1>2

\* What a transaction adds to the rows of the accounts: the row that records
\* it, and for a transfer the credit row.
LEMMA PostRows ==
  ASSUME NEW s \in Submissions, TypeOK, Acceptable(s), PostTransaction(s)
  PROVE  \E own, credit \in Row :
           /\ Records(s, own)
           /\ credit.kind = "transfer_in"
           /\ credit.id = InLeg[s.rid]
           /\ s.kind = "transfer" => credit.party = s.acct /\ credit.amount = s.amount
           /\ \A a \in Accounts :
                RowsIn(journal', a) = RowsIn(journal, a)
                             \cup (IF a = s.acct THEN {own} ELSE {})
                             \cup (IF s.kind = "transfer" /\ a = s.to THEN {credit}
                                                                    ELSE {})
<1> USE SubmissionType
<1>1. CASE s.kind = "transfer"
  <2> DEFINE out == TransferBalance(s)[s.acct]
             in  == TransferBalance(s)[s.to]
             outRow == TxRow("transfer_out", s.rid, s.amount, out + s.amount, out, s.to)
             inRow  == TxRow("transfer_in", InLeg[s.rid], s.amount, in - s.amount,
                             in, s.acct)
             first == AddRow(journal, s.acct, outRow)
  <2>1. s.to \in Accounts
    BY <1>1 DEF Acceptable
  <2>2. journal' = AddRow(first, s.to, inRow)
    BY <1>1 DEF PostTransaction, TransferRows
  <2>3. out \in Int /\ in \in Int
    BY <2>1 DEF TypeOK, TransferBalance, Debit
  <2>4. /\ outRow \in Row /\ inRow \in Row
        /\ Records(s, outRow)
        /\ inRow.kind = "transfer_in" /\ inRow.id = InLeg[s.rid]
        /\ inRow.party = s.acct /\ inRow.amount = s.amount
    BY <1>1, <2>1, <2>3 DEF TxRow, Row, RowKinds, Records, OwnRow
  <2> HIDE DEF out, in, outRow, inRow
  <2>5. first \in [Accounts -> Seq(Row)]
    BY <2>4, AddRowType DEF TypeOK
  <2>6. ASSUME NEW a \in Accounts
        PROVE  RowsIn(journal', a) =
                 RowsIn(journal, a) \cup (IF a = s.acct THEN {outRow} ELSE {})
                            \cup (IF a = s.to THEN {inRow} ELSE {})
    <3>1. RowsIn(first, a) =
            RowsIn(journal, a) \cup (IF a = s.acct THEN {outRow} ELSE {})
      <4>1. journal \in [Accounts -> Seq(Row)] /\ s.acct \in Accounts
        BY DEF TypeOK
      <4> QED BY <2>4, <4>1, AddRowRows
    <3> HIDE DEF first
    <3>2. RowsIn(journal', a) = RowsIn(first, a)
                       \cup (IF a = s.to THEN {inRow} ELSE {})
      BY <2>1, <2>2, <2>4, <2>5, AddRowRows
    <3> QED BY <3>1, <3>2
  <2> QED BY <1>1, <2>4, <2>6
<1>2. CASE s.kind # "transfer"
  <2> DEFINE after == OneBalance(s)[s.acct]
             row == TxRow(s.kind, s.rid, s.amount, balance[s.acct], after, NoAccount)
             unused == TxRow("transfer_in", InLeg[s.rid], 0, 0, 0, NoAccount)
  <2>1. journal' = AddRow(journal, s.acct, row)
    BY <1>2 DEF PostTransaction, OneRow
  <2>2. after \in Int
    BY DEF TypeOK, OneBalance, Debit
  <2>3. /\ row \in Row /\ Records(s, row)
        /\ unused \in Row /\ unused.kind = "transfer_in" /\ unused.id = InLeg[s.rid]
    BY <1>2, <2>2 DEF TypeOK, TxRow, Row, RowKinds, Kinds, Records, OwnRow
  <2> HIDE DEF after, row, unused
  <2>4. ASSUME NEW a \in Accounts
        PROVE  RowsIn(journal', a) =
                 RowsIn(journal, a) \cup (IF a = s.acct THEN {row} ELSE {})
    <3>1. journal \in [Accounts -> Seq(Row)] /\ s.acct \in Accounts
      BY DEF TypeOK
    <3> QED BY <2>1, <2>3, <3>1, AddRowRows
  <2> QED BY <1>2, <2>3, <2>4
<1> QED BY <1>1, <1>2

\* Carrying out an operation posts its own request and no other.
LEMMA PostPosted ==
  ASSUME NEW s \in Submissions, TypeOK, Acceptable(s), PostTransaction(s)
  PROVE  /\ \A r \in RequestIds : PostedIn(journal', r) <=> (Posted(r) \/ r = s.rid)
         /\ \A t \in Submissions : CarriedOut(t) => CarriedOutIn(journal', t)
         /\ CarriedOutIn(journal', s)
<1> USE SubmissionType
<1>1. PICK own \in Row, credit \in Row :
        /\ Records(s, own)
        /\ credit.kind = "transfer_in"
        /\ \A a \in Accounts :
             RowsIn(journal', a) = RowsIn(journal, a)
               \cup (IF a = s.acct THEN {own} ELSE {})
               \cup (IF s.kind = "transfer" /\ a = s.to THEN {credit} ELSE {})
  BY PostRows
<1>2. OwnRow(s.rid, own)
  BY <1>1 DEF Records
<1>3. \A r \in RequestIds : ~OwnRow(r, credit) /\ (OwnRow(r, own) <=> r = s.rid)
  BY <1>1, <1>2 DEF OwnRow
<1>4. \A r \in RequestIds : PostedIn(journal', r) <=> (Posted(r) \/ r = s.rid)
  BY <1>1, <1>3 DEF Posted, PostedIn
<1>5. \A t \in Submissions : \A row \in RowsIn(journal, t.acct) :
        row \in RowsIn(journal', t.acct)
  BY <1>1
<1>6. own \in RowsIn(journal', s.acct)
  BY <1>1
<1> QED BY <1>1, <1>4, <1>5, <1>6 DEF CarriedOut, CarriedOutIn

\* What a replicated write adds to the rows of the accounts.
LEMMA ReplicatedRows ==
  ASSUME NEW b \in Accounts, NEW v \in PeerBalances, TypeOK, ReplicatedWrite(b, v)
  PROVE  \E row \in Row :
           /\ row.kind = "replicated"
           /\ \A a \in Accounts :
                RowsIn(journal', a) = RowsIn(journal, a) \cup (IF a = b THEN {row} ELSE {})
<1> DEFINE new == IF v < 0 THEN 0 ELSE v
           row == TxRow("replicated", NoAccount, 0, balance[b], new, NoAccount)
<1>1. new \in Int
  BY PipelineAssumption
<1>2. row \in Row /\ row.kind = "replicated"
  BY <1>1 DEF TypeOK, TxRow, Row, RowKinds
<1>3. journal' = AddRow(journal, b, row)
  BY DEF ReplicatedWrite
<1> HIDE DEF new, row
<1>4. \A a \in Accounts :
        RowsIn(journal', a) = RowsIn(journal, a) \cup (IF a = b THEN {row} ELSE {})
  <2>1. journal \in [Accounts -> Seq(Row)]
    BY DEF TypeOK
  <2> QED BY <1>2, <1>3, <2>1, AddRowRows
<1> QED BY <1>2, <1>4

\* A replicated write posts no request.
LEMMA ReplicatedPosted ==
  ASSUME NEW b \in Accounts, NEW v \in PeerBalances, TypeOK, ReplicatedWrite(b, v)
  PROVE  /\ \A r \in RequestIds : PostedIn(journal', r) <=> Posted(r)
         /\ \A t \in Submissions : CarriedOut(t) => CarriedOutIn(journal', t)
<1> USE SubmissionType
<1>1. PICK row \in Row :
        /\ row.kind = "replicated"
        /\ \A a \in Accounts :
             RowsIn(journal', a) = RowsIn(journal, a) \cup (IF a = b THEN {row} ELSE {})
  BY ReplicatedRows
<1>2. \A r \in RequestIds : ~OwnRow(r, row)
  BY <1>1 DEF OwnRow
<1>3. \A t \in Submissions : \A x \in RowsIn(journal, t.acct) :
        x \in RowsIn(journal', t.acct)
  BY <1>1
<1> QED BY <1>1, <1>2, <1>3 DEF Posted, PostedIn, CarriedOut, CarriedOutIn

\* An operation that has been carried out has posted its request.
LEMMA CarriedOutIsPosted ==
  ASSUME NEW s \in Submissions
  PROVE  /\ CarriedOut(s) => Posted(s.rid)
         /\ CarriedOutIn(journal', s) => PostedIn(journal', s.rid)
BY SubmissionType DEF CarriedOut, CarriedOutIn, Records, Posted, PostedIn

-----------------------------------------------------------------------------

\* The steps that leave the journal alone leave what is posted alone.
LEMMA SameJournal ==
  ASSUME journal' = journal
  PROVE  /\ \A r : PostedIn(journal', r) <=> Posted(r)
         /\ \A t : CarriedOutIn(journal', t) <=> CarriedOut(t)
BY DEF Posted, CarriedOut

\* The facts about requests, journal and queue that every step starts from.
InvParts == /\ EntriesAreUnique
            /\ RunningJobIsOpen
            /\ WaitingRequestsAreOpen
            /\ StatusAgreesWithJournal
            /\ SuccessMeansPosted

\* A new entry is for a request that nothing knows yet.
LEMMA CreateKeepsInv ==
  ASSUME NEW s \in Submissions, Create(s), TypeOK, InvParts
  PROVE  InvParts'
<1> USE SubmissionType
<1>1. /\ \A r \in RequestIds : PostedIn(journal', r) <=> Posted(r)
      /\ \A t \in Submissions : CarriedOutIn(journal', t) <=> CarriedOut(t)
  BY SameJournal DEF Create
<1>2. /\ ~Posted(s.rid)
      /\ \A t \in accepted : t.rid # s.rid
      /\ \A i \in DOMAIN queue : queue[i] \in accepted
      /\ accepted \subseteq Submissions
  BY DEF Create, InvParts, EntriesAreUnique, WaitingRequestsAreOpen, TypeOK
<1>3. EntriesAreUnique'
  BY <1>1, <1>2 DEF Create, TypeOK, InvParts, EntriesAreUnique, Posted
<1>4. RunningJobIsOpen'
  BY <1>1, <1>2 DEF Create, TypeOK, InvParts, RunningJobIsOpen
<1>5. WaitingRequestsAreOpen'
  BY <1>1, <1>2 DEF Create, TypeOK, InvParts, WaitingRequestsAreOpen, Posted
<1>6. StatusAgreesWithJournal'
  BY <1>1, <1>2 DEF Create, TypeOK, InvParts, StatusAgreesWithJournal, Posted, CarriedOut
<1>7. SuccessMeansPosted'
  BY <1>1 DEF Create, TypeOK, InvParts, SuccessMeansPosted, Posted
<1> QED BY <1>3, <1>4, <1>5, <1>6, <1>7 DEF InvParts

\* A cached success is about a completed request.
LEMMA DuplicateKeepsInv ==
  ASSUME NEW s \in Submissions, Duplicate(s), TypeOK, InvParts
  PROVE  InvParts'
<1> USE SubmissionType
<1>1. status[s.rid] = "completed" => Posted(s.rid)
  <2>1. PICK t \in accepted : t.rid = s.rid
    BY DEF Duplicate, InvParts, EntriesAreUnique
  <2> QED BY <2>1, CarriedOutIsPosted DEF TypeOK, InvParts, StatusAgreesWithJournal
<1>2. SuccessMeansPosted'
  BY <1>1 DEF Duplicate, InvParts, SuccessMeansPosted, Posted
<1> QED
  BY <1>2 DEF Duplicate, InvParts, EntriesAreUnique, RunningJobIsOpen,
              WaitingRequestsAreOpen, StatusAgreesWithJournal, Posted, CarriedOut

\* The queued request is the one the handler has just accepted.
LEMMA EnqueueKeepsInv ==
  ASSUME Enqueue, TypeOK, InvParts
  PROVE  InvParts'
<1>1. /\ job \in accepted /\ job # NoJob /\ status[job.rid] = "received"
      /\ ~Posted(job.rid)
  BY DEF Enqueue, TypeOK, InvParts, RunningJobIsOpen, WaitingRequestsAreOpen
<1>2. /\ queue' = Append(queue, job) /\ queue \in Seq(Submissions)
      /\ job \in Submissions
  BY <1>1 DEF Enqueue, TypeOK
<1>3. /\ DOMAIN queue' = 1..(Len(queue) + 1) /\ DOMAIN queue = 1..Len(queue)
      /\ \A i \in 1..Len(queue) : queue'[i] = queue[i]
      /\ queue'[Len(queue) + 1] = job
      /\ Len(queue) \in Nat
  BY <1>2, AppendProperties, LenProperties
<1>4. \A i \in DOMAIN queue' : i \in DOMAIN queue \/ i = Len(queue) + 1
  BY <1>3
<1>5. WaitingRequestsAreOpen'
  BY <1>1, <1>3, <1>4 DEF Enqueue, InvParts, WaitingRequestsAreOpen, Posted
<1> QED
  BY <1>5 DEF Enqueue, InvParts, EntriesAreUnique, RunningJobIsOpen,
              StatusAgreesWithJournal, SuccessMeansPosted, Posted, CarriedOut

\* The request a worker takes is open and waits nowhere else.
LEMMA TakeKeepsInv ==
  ASSUME Take, TypeOK, InvParts
  PROVE  InvParts'
<1> USE SubmissionType
<1>1. /\ queue \in Seq(Submissions) /\ queue # <<>>
      /\ job' = Head(queue) /\ queue' = Tail(queue)
  BY DEF Take, TypeOK
<1>2. /\ Len(queue) \in Nat \ {0} /\ DOMAIN queue = 1..Len(queue)
      /\ DOMAIN queue' = 1..(Len(queue) - 1)
      /\ \A i \in DOMAIN queue' : queue'[i] = queue[i + 1]
      /\ job' = queue[1]
  BY <1>1, HeadTailProperties, LenProperties, EmptySeq
<1>3. /\ job' \in accepted /\ job' \in Submissions /\ job' # NoJob
      /\ status[job'.rid] = "received"
      /\ ~Posted(job'.rid)
  BY <1>2 DEF InvParts, WaitingRequestsAreOpen, TypeOK
<1>4. \A i \in DOMAIN queue' : /\ i + 1 \in DOMAIN queue
                                /\ queue'[i] \in accepted
                                /\ queue'[i] \in Submissions
                                /\ status[queue'[i].rid] = "received"
                                /\ ~Posted(queue'[i].rid)
                                /\ queue'[i].rid # job'.rid
  BY <1>2 DEF InvParts, WaitingRequestsAreOpen, TypeOK
<1>5. status' \in {status, [status EXCEPT ![job'.rid] = "processing"]}
  BY <1>1 DEF Take
<1>6. /\ status'[job'.rid] \in {"received", "processing"}
      /\ \A r \in RequestIds : r # job'.rid => status'[r] = status[r]
  BY <1>3, <1>5 DEF TypeOK
<1>7. /\ journal' = journal /\ accepted' = accepted /\ succeeded' = succeeded
      /\ loop' = "operate"
  BY DEF Take
<1>8. EntriesAreUnique'
  BY <1>3, <1>6, <1>7 DEF InvParts, EntriesAreUnique, Posted
<1>9. RunningJobIsOpen'
  BY <1>3, <1>6, <1>7 DEF RunningJobIsOpen
<1>10. WaitingRequestsAreOpen'
  <2>1. ASSUME NEW i \in DOMAIN queue', NEW k \in DOMAIN queue', queue'[i].rid = queue'[k].rid
        PROVE  i = k
    <3>1. i + 1 = k + 1
      BY <1>2, <1>4, <2>1 DEF InvParts, WaitingRequestsAreOpen
    <3> QED BY <1>2, <3>1
  <2>2. \A i \in DOMAIN queue' : status'[queue'[i].rid] = "received"
    BY <1>4, <1>6
  <2> QED BY <1>3, <1>4, <1>7, <2>1, <2>2 DEF WaitingRequestsAreOpen, Posted
<1>11. StatusAgreesWithJournal'
  BY <1>3, <1>6, <1>7 DEF TypeOK, InvParts, StatusAgreesWithJournal, Posted, CarriedOut
<1>12. SuccessMeansPosted'
  BY <1>7 DEF InvParts, SuccessMeansPosted, Posted
<1> QED BY <1>8, <1>9, <1>10, <1>11, <1>12 DEF InvParts

\* A refused or rolled-back operation has not moved the money of its request.
LEMMA RefusalKeepsInv ==
  ASSUME Decline \/ RollBack, TypeOK, InvParts
  PROVE  InvParts'
<1>1. /\ loop = "operate" /\ loop' = "reject" /\ job # NoJob
      /\ UNCHANGED <<journal, accepted, status, queue, job, succeeded>>
  BY DEF Decline, RollBack, TypeOK
<1> QED
  BY <1>1 DEF InvParts, EntriesAreUnique, RunningJobIsOpen, WaitingRequestsAreOpen,
              StatusAgreesWithJournal, SuccessMeansPosted, Posted, CarriedOut

\* A transaction posts the running request, which is open and waits nowhere.
LEMMA ApplyKeepsInv ==
  ASSUME Apply, TypeOK, InvParts
  PROVE  InvParts'
<1> USE SubmissionType
<1>1. /\ job \in Submissions /\ job # NoJob /\ job \in accepted
      /\ status[job.rid] \in {"received", "processing"}
      /\ accepted \subseteq Submissions /\ succeeded \subseteq Submissions
      /\ \A i \in DOMAIN queue : queue[i] \in Submissions
  BY DEF Apply, TypeOK, InvParts, RunningJobIsOpen
<1>2. /\ \A r \in RequestIds : PostedIn(journal', r) <=> (Posted(r) \/ r = job.rid)
      /\ \A t \in Submissions : CarriedOut(t) => CarriedOutIn(journal', t)
      /\ CarriedOutIn(journal', job)
  BY <1>1, PostPosted DEF Apply
<1>3. EntriesAreUnique'
  BY <1>1, <1>2 DEF Apply, InvParts, EntriesAreUnique, Posted
<1>4. RunningJobIsOpen'
  BY <1>1, <1>2 DEF Apply, RunningJobIsOpen, CarriedOut
<1>5. WaitingRequestsAreOpen'
  BY <1>1, <1>2 DEF Apply, InvParts, WaitingRequestsAreOpen, Posted
<1>6. StatusAgreesWithJournal'
  BY <1>1, <1>2 DEF Apply, InvParts, StatusAgreesWithJournal, Posted, CarriedOut
<1>7. SuccessMeansPosted'
  BY <1>1, <1>2 DEF Apply, InvParts, SuccessMeansPosted, Posted
<1> QED BY <1>3, <1>4, <1>5, <1>6, <1>7 DEF InvParts

\* The final status says what became of the request.
LEMMA FinishKeepsInv ==
  ASSUME Finish, TypeOK, InvParts
  PROVE  InvParts'
<1> USE SubmissionType
<1>1. /\ job \in Submissions /\ job # NoJob /\ job \in accepted
      /\ accepted \subseteq Submissions
      /\ \A i \in DOMAIN queue : queue[i] \in Submissions /\ job.rid # queue[i].rid
  BY DEF Finish, TypeOK, InvParts, RunningJobIsOpen, WaitingRequestsAreOpen
<1>2. /\ loop = "confirm" => CarriedOut(job)
      /\ loop = "reject" => ~Posted(job.rid)
  BY DEF Finish, InvParts, RunningJobIsOpen
<1>3. /\ \A r \in RequestIds : r # job.rid => status'[r] = status[r]
      /\ \/ status' = status
         \/ status'[job.rid] = IF loop = "confirm" THEN "completed" ELSE "failed"
  BY <1>1 DEF Finish, TypeOK
<1>4. /\ journal' = journal /\ accepted' = accepted /\ queue' = queue
      /\ loop' = "idle" /\ job' = NoJob
      /\ succeeded' \in {succeeded, succeeded \cup {job}}
      /\ succeeded' # succeeded => loop = "confirm"
  BY DEF Finish
<1>5. EntriesAreUnique'
  BY <1>1, <1>3, <1>4 DEF TypeOK, InvParts, EntriesAreUnique, Posted, Finish
<1>6. RunningJobIsOpen'
  BY <1>4 DEF RunningJobIsOpen
<1>7. WaitingRequestsAreOpen'
  BY <1>1, <1>3, <1>4 DEF InvParts, WaitingRequestsAreOpen, Posted
<1>8. StatusAgreesWithJournal'
  <2>1. \A t \in accepted : t.rid = job.rid => t = job
    BY <1>1 DEF InvParts, EntriesAreUnique
  <2> QED BY <1>1, <1>2, <1>3, <1>4, <2>1
          DEF Finish, InvParts, StatusAgreesWithJournal, Posted, CarriedOut
<1>9. SuccessMeansPosted'
  <2>1. loop = "confirm" => Posted(job.rid)
    BY <1>1, <1>2, CarriedOutIsPosted
  <2> QED BY <1>4, <2>1 DEF InvParts, SuccessMeansPosted, Posted
<1> QED BY <1>5, <1>6, <1>7, <1>8, <1>9 DEF InvParts

\* A crash forgets the queue and the running coroutine, not the tables.
LEMMA CrashKeepsInv ==
  ASSUME Crash, TypeOK, InvParts
  PROVE  InvParts'
<1>1. queue' = <<>> /\ DOMAIN <<>> = {} /\ loop' = "idle"
  BY EmptySeq DEF Crash
<1> QED
  BY <1>1 DEF Crash, InvParts, EntriesAreUnique, RunningJobIsOpen,
              WaitingRequestsAreOpen, StatusAgreesWithJournal, SuccessMeansPosted,
              Posted, CarriedOut

\* A peer's event is about no request of this server.
LEMMA ReplicatedKeepsInv ==
  ASSUME NEW b \in Accounts, NEW v \in PeerBalances, ReplicatedWrite(b, v),
         TypeOK, InvParts
  PROVE  InvParts'
<1> USE SubmissionType
<1>1. /\ \A r \in RequestIds : PostedIn(journal', r) <=> Posted(r)
      /\ \A t \in Submissions : CarriedOut(t) => CarriedOutIn(journal', t)
  BY ReplicatedPosted
<1>2. /\ loop = "idle"
      /\ UNCHANGED <<accepted, status, queue, loop, job, succeeded>>
      /\ accepted \subseteq Submissions /\ succeeded \subseteq Submissions
      /\ \A i \in DOMAIN queue : queue[i] \in Submissions
  BY DEF ReplicatedWrite, TypeOK
<1>3. EntriesAreUnique'
  BY <1>1, <1>2 DEF InvParts, EntriesAreUnique, Posted
<1>4. RunningJobIsOpen'
  BY <1>2 DEF RunningJobIsOpen
<1>5. WaitingRequestsAreOpen'
  BY <1>1, <1>2 DEF InvParts, WaitingRequestsAreOpen, Posted
<1>6. StatusAgreesWithJournal'
  BY <1>1, <1>2 DEF InvParts, StatusAgreesWithJournal, Posted, CarriedOut
<1>7. SuccessMeansPosted'
  BY <1>1, <1>2 DEF InvParts, SuccessMeansPosted, Posted
<1> QED BY <1>3, <1>4, <1>5, <1>6, <1>7 DEF InvParts

\* Every step keeps the inductive invariant.
LEMMA InvStep == PipelineInv /\ [Next]_vars => PipelineInv'
<1> SUFFICES ASSUME PipelineInv, [Next]_vars PROVE PipelineInv'
  OBVIOUS
<1>1. TypeOK /\ InvParts
  BY DEF PipelineInv, InvParts
<1>2. TypeOK'
  BY <1>1, TypeStep
<1>3. Client => InvParts'
  BY <1>1, CreateKeepsInv, DuplicateKeepsInv DEF Client
<1>4. Server => InvParts'
  BY <1>1, EnqueueKeepsInv, TakeKeepsInv, RefusalKeepsInv, ApplyKeepsInv,
     FinishKeepsInv DEF Server
<1>5. Peer => InvParts'
  BY <1>1, ReplicatedKeepsInv DEF Peer
<1>6. Crash => InvParts'
  BY <1>1, CrashKeepsInv
<1>7. UNCHANGED vars => InvParts'
  BY <1>1 DEF vars, InvParts, EntriesAreUnique, RunningJobIsOpen,
       WaitingRequestsAreOpen, StatusAgreesWithJournal, SuccessMeansPosted, Posted,
       CarriedOut
<1>8. InvParts'
  BY <1>3, <1>4, <1>5, <1>6, <1>7 DEF Next
<1> QED BY <1>2, <1>8 DEF PipelineInv, InvParts

\* The inductive invariant holds in every reachable state.
THEOREM PipelineInvariant == Spec => []PipelineInv
<1>1. Init => TypeOK
  <2>1. <<>> \in Seq(Row) /\ <<>> \in Seq(Submissions)
    BY EmptySeq
  <2> QED BY <2>1, PipelineAssumption DEF Init, TypeOK, Statuses, Steps
<1>2. Init => PipelineInv
  <2> SUFFICES ASSUME Init PROVE PipelineInv
    OBVIOUS
  <2>1. DOMAIN <<>> = {}
    BY EmptySeq
  <2>2. \A r : ~Posted(r)
    BY <2>1 DEF Init, Posted, PostedIn, RowsIn
  <2> QED BY <1>1, <2>1, <2>2 DEF Init, PipelineInv, EntriesAreUnique, RunningJobIsOpen,
            WaitingRequestsAreOpen, StatusAgreesWithJournal, SuccessMeansPosted
<1> QED BY <1>2, InvStep, PTL DEF Spec

\* What a client polling a request is told agrees with the ledger.
THEOREM PipelineStatusAgreesWithJournal == Spec => []StatusAgreesWithJournal
<1>1. PipelineInv => StatusAgreesWithJournal
  BY DEF PipelineInv
<1> QED BY <1>1, PipelineInvariant, PTL

\* No request is queued twice, and none that was already carried out.
THEOREM PipelineWaitingRequestsAreOpen == Spec => []WaitingRequestsAreOpen
<1>1. PipelineInv => WaitingRequestsAreOpen
  BY DEF PipelineInv
<1> QED BY <1>1, PipelineInvariant, PTL

\* A client that was told "success" was told so about money that moved.
THEOREM PipelineSuccessMeansPosted == Spec => []SuccessMeansPosted
<1>1. PipelineInv => SuccessMeansPosted
  BY DEF PipelineInv
<1> QED BY <1>1, PipelineInvariant, PTL

-----------------------------------------------------------------------------
(* The legs of transfers.                                                  *)

\* The row on the other account that a row of a transfer stands or falls with.
HasCredit(j, a, out) ==
  \E in \in RowsIn(j, out.party) : /\ in.kind = "transfer_in" /\ in.id = InLeg[out.id]
                                   /\ in.party = a /\ in.amount = out.amount

HasDebit(j, b, in) ==
  \E out \in RowsIn(j, in.party) : /\ out.kind = "transfer_out" /\ in.id = InLeg[out.id]
                                   /\ out.party = b /\ in.amount = out.amount

LegsPaired(j) ==
  \A a \in Accounts : \A row \in RowsIn(j, a) :
    /\ row.kind = "transfer_out" /\ row.party \in Accounts => HasCredit(j, a, row)
    /\ row.kind = "transfer_in" /\ row.party \in Accounts => HasDebit(j, a, row)

\* The same, said of every row.
LEMMA LegsPairedIs == TransferLegsPaired <=> LegsPaired(journal)
BY DEF TransferLegsPaired, LegsPaired, HasCredit, HasDebit, Rows

\* Rows stay, so a leg keeps its partner.
LEMMA PartnersStay ==
  ASSUME LegsPaired(journal), NEW a \in Accounts, NEW row \in RowsIn(journal, a),
         \A b \in Accounts : RowsIn(journal, b) \subseteq RowsIn(journal', b),
         row.party \in Accounts
  PROVE  /\ row.kind = "transfer_out" => HasCredit(journal', a, row)
         /\ row.kind = "transfer_in" => HasDebit(journal', a, row)
<1>1. row.kind = "transfer_out" => HasCredit(journal, a, row)
  BY DEF LegsPaired
<1>2. row.kind = "transfer_in" => HasDebit(journal, a, row)
  BY DEF LegsPaired
<1> QED BY <1>1, <1>2 DEF HasCredit, HasDebit

\* An operation records both legs or none.
LEMMA PostPaired ==
  ASSUME NEW s \in Submissions, TypeOK, LegsPaired(journal), Acceptable(s),
         PostTransaction(s)
  PROVE  LegsPaired(journal')
<1> USE SubmissionType
<1>1. PICK own \in Row, credit \in Row :
        /\ Records(s, own)
        /\ credit.kind = "transfer_in" /\ credit.id = InLeg[s.rid]
        /\ s.kind = "transfer" => credit.party = s.acct /\ credit.amount = s.amount
        /\ \A a \in Accounts :
             RowsIn(journal', a) = RowsIn(journal, a)
               \cup (IF a = s.acct THEN {own} ELSE {})
               \cup (IF s.kind = "transfer" /\ a = s.to THEN {credit} ELSE {})
  BY PostRows
<1>2. /\ own.id = s.rid /\ own.amount = s.amount /\ own.party = s.to
      /\ own.kind = IF s.kind = "transfer" THEN "transfer_out" ELSE s.kind
  BY <1>1 DEF Records, OwnRow
<1>3. \A b \in Accounts : RowsIn(journal, b) \subseteq RowsIn(journal', b)
  BY <1>1
<1>4. ASSUME s.kind = "transfer"
      PROVE  /\ s.to \in Accounts
             /\ HasCredit(journal', s.acct, own) /\ HasDebit(journal', s.to, credit)
  <2>1. s.to \in Accounts
    BY <1>4 DEF Acceptable
  <2>2. own \in RowsIn(journal', s.acct) /\ credit \in RowsIn(journal', s.to)
    BY <1>1, <1>4, <2>1
  <2>3. own.party = s.to /\ credit.party = s.acct
    BY <1>1, <1>2, <1>4
  <2> QED BY <1>1, <1>2, <1>4, <2>1, <2>2, <2>3 DEF HasCredit, HasDebit
<1>5. ASSUME NEW a \in Accounts, NEW row \in RowsIn(journal', a), row.party \in Accounts
      PROVE  /\ row.kind = "transfer_out" => HasCredit(journal', a, row)
             /\ row.kind = "transfer_in" => HasDebit(journal', a, row)
  <2>1. CASE row \in RowsIn(journal, a)
    BY <1>3, <1>5, <2>1, PartnersStay
  <2>2. CASE a = s.acct /\ row = own
    <3>1. CASE s.kind = "transfer"
      BY <1>2, <1>4, <2>2, <3>1
    <3>2. CASE s.kind # "transfer"
      BY <1>2, <2>2, <3>2 DEF Kinds
    <3> QED BY <3>1, <3>2
  <2>3. CASE s.kind = "transfer" /\ a = s.to /\ row = credit
    BY <1>1, <1>4, <2>3
  <2> QED BY <1>1, <2>1, <2>2, <2>3
<1> QED BY <1>5 DEF LegsPaired

\* A replicated write has no legs.
LEMMA ReplicatedPaired ==
  ASSUME NEW b \in Accounts, NEW v \in PeerBalances, TypeOK, LegsPaired(journal),
         ReplicatedWrite(b, v)
  PROVE  LegsPaired(journal')
<1>1. PICK row \in Row :
        /\ row.kind = "replicated"
        /\ \A a \in Accounts :
             RowsIn(journal', a) = RowsIn(journal, a) \cup (IF a = b THEN {row} ELSE {})
  BY ReplicatedRows
<1>2. \A a \in Accounts : RowsIn(journal, a) \subseteq RowsIn(journal', a)
  BY <1>1
<1>3. ASSUME NEW a \in Accounts, NEW x \in RowsIn(journal', a), x.party \in Accounts
      PROVE  /\ x.kind = "transfer_out" => HasCredit(journal', a, x)
             /\ x.kind = "transfer_in" => HasDebit(journal', a, x)
  <2>1. CASE x \in RowsIn(journal, a)
    BY <1>2, <1>3, <2>1, PartnersStay
  <2>2. CASE x = row
    BY <1>1, <2>2
  <2> QED BY <1>1, <2>1, <2>2
<1> QED BY <1>3 DEF LegsPaired

\* The two legs of a transfer stand or fall together, whatever stops the server.
THEOREM PipelineTransferLegsPaired == Spec => []TransferLegsPaired
<1>1. Init => LegsPaired(journal)
  <2>1. DOMAIN <<>> = {}
    BY EmptySeq
  <2> QED BY <2>1 DEF Init, LegsPaired, RowsIn
<1>2. TypeOK /\ LegsPaired(journal) /\ [Next]_vars => LegsPaired(journal)'
  <2> SUFFICES ASSUME TypeOK, LegsPaired(journal), [Next]_vars
               PROVE  LegsPaired(journal')
    BY DEF LegsPaired, HasCredit, HasDebit
  <2>1. CASE UNCHANGED <<balance, journal>>
    BY <2>1
  <2>2. CASE job \in Submissions /\ Apply
    BY <2>2, PostPaired DEF Apply
  <2>3. CASE \E a \in Accounts, v \in PeerBalances : ReplicatedWrite(a, v)
    BY <2>3, ReplicatedPaired
  <2> QED BY <2>1, <2>2, <2>3, LedgerSteps
<1> QED BY <1>1, <1>2, LegsPairedIs, PipelineTypeOK, PTL DEF Spec

-----------------------------------------------------------------------------
(* The refinement of PaymentLedger.                                        *)

\* The posting that a row of the transactions table stands for.
Posting(row) ==
  [id |-> row.id, leg |-> IF row.kind = "transfer_in" THEN "credit" ELSE "own"]

LedgerPosted == UNION {Postings(a) : a \in Accounts}

PostedBy(j, p) ==
  \E a \in Accounts : \E row \in RowsIn(j, a) :
    row.kind # "replicated" /\ p = Posting(row)

\* The ledger has the postings of all the rows.
LEMMA LedgerPostedIs ==
  /\ \A p : p \in LedgerPosted <=> PostedBy(journal, p)
  /\ \A p : p \in LedgerPosted' <=> PostedBy(journal', p)
BY DEF LedgerPosted, Postings, LocalRows, Rows, PostedBy, Posting

\* A request's own posting is there when the request is posted.
LEMMA OwnPosting ==
  ASSUME NEW r \in RequestIds
  PROVE  Ledger!Own(r) \in LedgerPosted <=> Posted(r)
<1>1. \A row : (row.kind # "replicated" /\ Ledger!Own(r) = Posting(row)) <=> OwnRow(r, row)
  BY DEF Ledger!Own, Posting, OwnRow
<1>2. PostedBy(journal, Ledger!Own(r)) <=> Posted(r)
  BY <1>1 DEF PostedBy, Posted, PostedIn
<1> QED BY <1>2, LedgerPostedIs

\* A commit of an operation is one step of the ledger.
LEMMA ApplyPosts ==
  ASSUME PipelineInv, Apply
  PROVE  Ledger!Post(job)
<1> USE SubmissionType
<1>0. TypeOK
  BY DEF PipelineInv
<1>1. /\ job \in Submissions /\ Acceptable(job) /\ FreshIds(job) /\ PostTransaction(job)
      /\ job.amount > 0 /\ UNCHANGED status
  BY <1>0, LedgerSteps DEF Apply, Acceptable, TypeOK
<1>2. Outcome[job.rid] = "open" /\ UNCHANGED Outcome
  <2>1. status[job.rid] \in {"received", "processing"}
    BY DEF PipelineInv, RunningJobIsOpen, Apply
  <2>2. Outcome[job.rid] = "open"
    BY <1>1, <2>1 DEF Outcome
  <2> QED BY <1>1, <2>2 DEF Outcome
<1>3. ASSUME NEW p \in Ledger!Postings(job), NEW q \in LedgerPosted PROVE p.id # q.id
  <2>1. PICK a \in Accounts :
          \E row \in RowsIn(journal, a) : row.kind # "replicated" /\ q = Posting(row)
    BY LedgerPostedIs DEF PostedBy
  <2>2. q.id \in UsedIds
    BY <2>1 DEF UsedIds, LocalRows, Rows, Posting
  <2>3. p.id = job.rid \/ (job.kind = "transfer" /\ p.id = InLeg[job.rid])
    BY DEF Ledger!Postings, Ledger!Own, Ledger!Credit
  <2> QED BY <1>1, <2>2, <2>3 DEF FreshIds
<1>4. job.kind # "deposit" => balance[job.acct] >= job.amount
  BY <1>1 DEF Acceptable, Affordable
<1>5. balance' = [a \in Accounts |-> balance[a] + Ledger!Effect(job, a)]
  <2>1. balance \in [Accounts -> Int] /\ balance' \in [Accounts -> Int]
    BY <1>0, <1>1, PostType DEF TypeOK
  <2>2. ASSUME NEW a \in Accounts PROVE balance'[a] = balance[a] + Ledger!Effect(job, a)
    <3>1. CASE job.kind = "transfer"
      <4>1. job.to \in Accounts /\ balance' = TransferBalance(job)
        BY <1>1, <3>1 DEF Acceptable, PostTransaction
      <4>2. Ledger!Effect(job, a) = (IF a = job.to THEN job.amount ELSE 0)
                                      - (IF a = job.acct THEN job.amount ELSE 0)
        BY <3>1 DEF Ledger!Effect
      <4>3. TransferBalance(job)[a] = balance[a] + ((IF a = job.to THEN job.amount ELSE 0)
                                      - (IF a = job.acct THEN job.amount ELSE 0))
        BY <1>1, <2>1, <4>1 DEF TransferBalance, Debit
      <4> QED BY <4>1, <4>2, <4>3
    <3>2. CASE job.kind = "withdraw"
      <4>1. balance' = Debit(job.acct, job.amount)
        BY <1>1, <3>2 DEF PostTransaction, OneBalance
      <4>2. Ledger!Effect(job, a) = IF a = job.acct THEN -job.amount ELSE 0
        BY <3>2 DEF Ledger!Effect
      <4>3. job.amount \in Int /\ balance[a] \in Int
        BY <1>1, <2>1
      <4> QED BY <2>1, <4>1, <4>2, <4>3 DEF Debit
    <3>3. CASE job.kind = "deposit"
      <4>1. balance' = Debit(job.acct, -job.amount)
        BY <1>1, <3>3 DEF PostTransaction, OneBalance
      <4>2. Ledger!Effect(job, a) = IF a = job.acct THEN job.amount ELSE 0
        BY <3>3 DEF Ledger!Effect
      <4>3. job.amount \in Int /\ balance[a] \in Int
        BY <1>1, <2>1
      <4> QED BY <2>1, <4>1, <4>2, <4>3 DEF Debit
    <3> QED BY <1>1, <3>1, <3>2, <3>3 DEF Kinds
  <2> QED BY <2>1, <2>2
<1>6. LedgerPosted' = LedgerPosted \cup Ledger!Postings(job)
  <2>1. PICK own \in Row, credit \in Row :
          /\ Records(job, own)
          /\ credit.kind = "transfer_in" /\ credit.id = InLeg[job.rid]
          /\ \A a \in Accounts :
               RowsIn(journal', a) = RowsIn(journal, a)
                 \cup (IF a = job.acct THEN {own} ELSE {})
                 \cup (IF job.kind = "transfer" /\ a = job.to THEN {credit} ELSE {})
    BY <1>0, <1>1, PostRows
  <2>2. /\ own.kind # "replicated" /\ Posting(own) = Ledger!Own(job.rid)
        /\ credit.kind # "replicated" /\ Posting(credit) = Ledger!Credit(job.rid)
    BY <2>1 DEF Records, OwnRow, Posting, Ledger!Own, Ledger!Credit
  <2>3. job.kind = "transfer" => job.to \in Accounts
    BY <1>1 DEF Acceptable
  <2>4. \A p : PostedBy(journal', p) <=>
          \/ PostedBy(journal, p)
          \/ p = Ledger!Own(job.rid)
          \/ job.kind = "transfer" /\ p = Ledger!Credit(job.rid)
    BY <1>1, <2>1, <2>2, <2>3 DEF PostedBy
  <2>5. \A p : p \in Ledger!Postings(job) <=>
          \/ p = Ledger!Own(job.rid)
          \/ job.kind = "transfer" /\ p = Ledger!Credit(job.rid)
    BY DEF Ledger!Postings
  <2> QED BY <2>4, <2>5, LedgerPostedIs
<1> QED
  BY <1>1, <1>2, <1>3, <1>4, <1>5, <1>6 DEF Ledger!Post, LedgerPosted

\* A final status that is written confirms the request or rejects it.
LEMMA FinishDecides ==
  ASSUME PipelineInv, Finish
  PROVE  \/ UNCHANGED <<balance, LedgerPosted, Outcome>>
         \/ \E r \in RequestIds : Ledger!Confirm(r) \/ Ledger!Reject(r)
<1> USE SubmissionType
<1>1. /\ job \in Submissions /\ status[job.rid] \in {"received", "processing"}
      /\ UNCHANGED <<balance, journal>>
      /\ loop = "confirm" => CarriedOut(job)
      /\ loop = "reject" => ~Posted(job.rid)
      /\ loop \in {"confirm", "reject"}
  BY DEF PipelineInv, TypeOK, RunningJobIsOpen, Finish
<1>2. UNCHANGED LedgerPosted
  BY <1>1, LedgerPostedIs DEF LedgerPosted, Postings, LocalRows, Rows
<1>3. Outcome[job.rid] = "open"
  BY <1>1 DEF Outcome
<1>4. CASE UNCHANGED status
  BY <1>1, <1>2, <1>4 DEF Outcome
<1>5. CASE status' = [status EXCEPT ![job.rid] =
                        IF loop = "confirm" THEN "completed" ELSE "failed"]
  <2>1. status \in [RequestIds -> Statuses]
    BY DEF PipelineInv, TypeOK
  <2>2. CASE loop = "confirm"
    <3>1. Outcome' = [Outcome EXCEPT ![job.rid] = "confirmed"]
      BY <1>1, <1>5, <2>1, <2>2 DEF Outcome
    <3>2. Ledger!Own(job.rid) \in LedgerPosted
      BY <1>1, <2>2, CarriedOutIsPosted, OwnPosting
    <3>3. Ledger!Confirm(job.rid)
      BY <1>1, <1>2, <1>3, <3>1, <3>2 DEF Ledger!Confirm, LedgerPosted
    <3> QED BY <1>1, <3>3
  <2>3. CASE loop = "reject"
    <3>1. Outcome' = [Outcome EXCEPT ![job.rid] = "rejected"]
      BY <1>1, <1>5, <2>1, <2>3 DEF Outcome
    <3>2. Ledger!Own(job.rid) \notin LedgerPosted
      BY <1>1, <2>3, OwnPosting
    <3>3. Ledger!Reject(job.rid)
      BY <1>1, <1>2, <1>3, <3>1, <3>2 DEF Ledger!Reject, LedgerPosted
    <3> QED BY <1>1, <3>3
  <2> QED BY <1>1, <2>2, <2>3
<1> QED BY <1>4, <1>5 DEF Finish

\* A replicated write is the overwriting of one balance.
LEMMA ReplicatedOverwrites ==
  ASSUME TypeOK, NEW a \in Accounts, NEW v \in PeerBalances, ReplicatedWrite(a, v)
  PROVE  Ledger!Overwrite(a)
<1> DEFINE new == IF v < 0 THEN 0 ELSE v
<1>1. new \in Int /\ new >= 0
  BY PipelineAssumption
<1>2. balance' = [balance EXCEPT ![a] = new] /\ UNCHANGED status
  BY DEF ReplicatedWrite
<1> HIDE DEF new
<1>3. balance'[a] = new /\ balance' = [balance EXCEPT ![a] = balance'[a]]
  BY <1>2 DEF TypeOK
<1>4. UNCHANGED Outcome
  BY <1>2 DEF Outcome
<1>5. UNCHANGED LedgerPosted
  <2>1. PICK row \in Row :
          /\ row.kind = "replicated"
          /\ \A b \in Accounts :
               RowsIn(journal', b) = RowsIn(journal, b) \cup (IF b = a THEN {row} ELSE {})
    BY ReplicatedRows
  <2>2. \A p : PostedBy(journal', p) <=> PostedBy(journal, p)
    BY <2>1 DEF PostedBy
  <2> QED BY <2>2, LedgerPostedIs
<1> QED BY <1>1, <1>3, <1>4, <1>5 DEF Ledger!Overwrite, LedgerPosted

\* The steps without a final status leave what a client is told.
LEMMA OutcomeStays ==
  ASSUME PipelineInv, [Next]_vars, ~Finish
  PROVE  UNCHANGED Outcome
<1> USE SubmissionType
<1>0. TypeOK
  BY DEF PipelineInv
<1>1. ASSUME NEW r \in RequestIds, NEW s \in {"received", "processing"},
             status[r] \in {"absent", "received", "processing"},
             status' = [status EXCEPT ![r] = s]
      PROVE  UNCHANGED Outcome
  BY <1>0, <1>1 DEF Outcome, TypeOK
<1>2. ASSUME UNCHANGED status PROVE UNCHANGED Outcome
  BY <1>2 DEF Outcome
<1>3. ASSUME NEW s \in Submissions, Create(s) PROVE UNCHANGED Outcome
  BY <1>1, <1>3 DEF Create
<1>4. CASE Take
  <2>1. /\ queue \in Seq(Submissions) /\ queue # <<>> /\ Head(queue) = queue[1]
        /\ 1 \in DOMAIN queue /\ Head(queue) \in Submissions
    BY <1>0, <1>4, HeadTailProperties, LenProperties, EmptySeq DEF Take, TypeOK
  <2>2. status[Head(queue).rid] = "received"
    BY <2>1 DEF PipelineInv, WaitingRequestsAreOpen
  <2>3. \/ status' = [status EXCEPT ![Head(queue).rid] = "processing"]
        \/ UNCHANGED status
    BY <1>4 DEF Take
  <2> QED BY <1>1, <1>2, <2>1, <2>2, <2>3
<1> QED
  BY <1>2, <1>3, <1>4 DEF Next, Client, Server, Peer, Duplicate, Enqueue, Decline,
     Apply, RollBack, Crash, ReplicatedWrite, vars

\* Every request moves its money at most once, atomically and before it is
\* confirmed, and never once it is rejected: the pipeline implements PaymentLedger.
THEOREM PipelineImplementsLedger == Spec => ImplementsLedger
<1>1. Init => Ledger!LedgerInit
  <2> SUFFICES ASSUME Init PROVE Ledger!LedgerInit
    OBVIOUS
  <2>1. Outcome = [r \in RequestIds |-> "open"]
    BY DEF Init, Outcome
  <2>2. LedgerPosted = {}
    <3>1. DOMAIN <<>> = {}
      BY EmptySeq
    <3>2. \A p : ~PostedBy(journal, p)
      BY <3>1 DEF Init, PostedBy, RowsIn
    <3> QED BY <3>2, LedgerPostedIs
  <2> QED BY <2>1, <2>2 DEF Init, Ledger!LedgerInit, LedgerPosted
<1>2. ASSUME PipelineInv, [Next]_vars
      PROVE  Ledger!LedgerNext \/ UNCHANGED <<balance, LedgerPosted, Outcome>>
  <2>0. TypeOK
    BY <1>2 DEF PipelineInv
  <2>1. CASE job \in Submissions /\ Apply
    BY <1>2, <2>1, ApplyPosts DEF Ledger!LedgerNext
  <2>2. CASE \E a \in Accounts, v \in PeerBalances : ReplicatedWrite(a, v)
    BY <2>0, <2>2, ReplicatedOverwrites DEF Ledger!LedgerNext
  <2>3. CASE Finish
    BY <1>2, <2>3, FinishDecides DEF Ledger!LedgerNext
  <2>4. CASE UNCHANGED <<balance, journal>> /\ ~Finish
    <3>1. UNCHANGED LedgerPosted
      BY <2>4 DEF LedgerPosted, Postings, LocalRows, Rows
    <3> QED BY <1>2, <2>4, <3>1, OutcomeStays
  <2> QED BY <1>2, <2>0, <2>1, <2>2, <2>3, <2>4, LedgerSteps
<1>3. PipelineInv /\ [Next]_vars
        => [Ledger!LedgerNext]_<<balance, LedgerPosted, Outcome>>
  BY <1>2
<1> QED
  BY <1>1, <1>3, PipelineInvariant, PTL
  DEF Spec, ImplementsLedger, Ledger!LedgerSpec, Ledger!ledgerVars, LedgerPosted

-----------------------------------------------------------------------------
(* The money of a server.                                                  *)

\* What all accounts of the server hold together.
Money == WeightSum(balance, Accounts)

\* What an operation brings to the server: a transfer only moves money.
Brought(s) == CASE s.kind = "deposit"  -> s.amount
                [] s.kind = "withdraw" -> -s.amount
                [] OTHER               -> 0

\* An operation changes what all accounts hold together by what it brings, also when
\* it transfers to the account it debits.
LEMMA ApplyBrings ==
  ASSUME IsFiniteSet(Accounts), TypeOK, job \in Submissions, Apply
  PROVE  Money' = Money + Brought(job)
<1> USE SubmissionType
<1>1. Acceptable(job) /\ PostTransaction(job) /\ job.amount \in Int /\ job.acct \in Accounts
  BY DEF Apply
<1>2. balance \in [Accounts -> Int] /\ balance' \in [Accounts -> Int]
  BY <1>1, PostType DEF TypeOK
<1>3. Money \in Int
  BY <1>2, WeightsRemove DEF Money
<1>4. ASSUME NEW x \in Int, balance' = Debit(job.acct, x)
      PROVE  Money' = Money + (-x)
  <2>1. \A a \in Accounts \ {job.acct} : balance'[a] = balance[a]
    BY <1>2, <1>4 DEF Debit
  <2>2. balance'[job.acct] = balance[job.acct] - x /\ balance[job.acct] \in Int
    BY <1>1, <1>2, <1>4 DEF Debit
  <2>3. \A a \in Accounts : balance[a] \in Int /\ balance'[a] \in Int
    BY <1>2
  <2>4. Money' = Money + (balance'[job.acct] - balance[job.acct])
    BY <1>1, <2>1, <2>3, WeightsChange DEF Money
  <2>5. balance'[job.acct] - balance[job.acct] = -x
    BY <1>4, <2>2
  <2> QED BY <2>4, <2>5
<1>5. CASE job.kind = "deposit"
  <2>1. balance' = Debit(job.acct, -job.amount)
    BY <1>1, <1>5 DEF PostTransaction, OneBalance
  <2>2. -job.amount \in Int /\ -(-job.amount) = job.amount
    BY <1>1
  <2>3. Money' = Money + (-(-job.amount))
    BY <1>4, <2>1, <2>2
  <2> QED BY <1>5, <2>2, <2>3 DEF Brought
<1>6. CASE job.kind = "withdraw"
  <2>1. balance' = Debit(job.acct, job.amount)
    BY <1>1, <1>6 DEF PostTransaction, OneBalance
  <2>2. Money' = Money + (-job.amount)
    BY <1>1, <1>4, <2>1
  <2> QED BY <1>6, <2>2 DEF Brought
<1>7. CASE job.kind = "transfer"
  <2> DEFINE debited == Debit(job.acct, job.amount)
  <2>1. job.to \in Accounts /\ balance' = [debited EXCEPT ![job.to] = @ + job.amount]
    BY <1>1, <1>7 DEF Acceptable, PostTransaction, TransferBalance
  <2>2. /\ debited \in [Accounts -> Int]
        /\ \A a \in Accounts \ {job.acct} : debited[a] = balance[a]
        /\ debited[job.acct] = balance[job.acct] - job.amount
    BY <1>1, <1>2 DEF Debit
  <2> HIDE DEF debited
  <2>3. /\ \A a \in Accounts \ {job.to} : balance'[a] = debited[a]
        /\ balance'[job.to] = debited[job.to] + job.amount
    BY <1>1, <2>1, <2>2
  <2>4. \A a \in Accounts : balance[a] \in Int /\ debited[a] \in Int /\ balance'[a] \in Int
    BY <1>2, <2>2
  <2>5. WeightSum(debited, Accounts)
          = WeightSum(balance, Accounts) + (debited[job.acct] - balance[job.acct])
    BY <1>1, <2>2, <2>4, WeightsChange
  <2>6. WeightSum(balance', Accounts)
          = WeightSum(debited, Accounts) + (balance'[job.to] - debited[job.to])
    <3> DEFINE after == balance'
    <3>1. \A a \in Accounts : debited[a] \in Int /\ after[a] \in Int
      BY <2>4
    <3>2. \A a \in Accounts \ {job.to} : after[a] = debited[a]
      BY <2>3
    <3> HIDE DEF after
    <3>3. WeightSum(after, Accounts)
            = WeightSum(debited, Accounts) + (after[job.to] - debited[job.to])
      <4>1. job.to \in Accounts
        BY <2>1
      <4> QED BY ONLY <3>1, <3>2, <4>1, IsFiniteSet(Accounts), WeightsChange
    <3> QED BY <3>3 DEF after
  <2>7. /\ debited[job.acct] - balance[job.acct] = -job.amount
        /\ balance'[job.to] - debited[job.to] = job.amount
    BY <1>1, <2>1, <2>2, <2>3, <2>4
  <2>8. Money' = (Money + (-job.amount)) + job.amount
    BY <2>5, <2>6, <2>7 DEF Money
  <2>9. Money' = Money
    BY <1>1, <1>3, <2>8
  <2> QED BY <1>3, <1>7, <2>9 DEF Brought
<1> QED BY <1>1, <1>5, <1>6, <1>7 DEF Kinds

\* No step of the server makes or loses money: what its accounts hold together changes
\* only when an operation that Apply commits brings or takes its amount, and when
\* a peer's event overwrites a balance (operations.py 199-664,
\* replication_manager.py 247-393).
THEOREM PipelineConservesMoney ==
  ASSUME IsFiniteSet(Accounts)
  PROVE  Spec => [][\/ Money' = Money
                    \/ Apply /\ Money' = Money + Brought(job)
                    \/ \E a \in Accounts, v \in PeerBalances : ReplicatedWrite(a, v)]_vars
<1>1. ASSUME TypeOK, [Next]_vars
      PROVE  \/ Money' = Money
             \/ Apply /\ Money' = Money + Brought(job)
             \/ \E a \in Accounts, v \in PeerBalances : ReplicatedWrite(a, v)
  <2>1. CASE UNCHANGED <<balance, journal>>
    BY <2>1 DEF Money
  <2>2. CASE job \in Submissions /\ Apply
    BY <1>1, <2>2, ApplyBrings
  <2> QED BY <1>1, <2>1, <2>2, LedgerSteps
<1> QED BY <1>1, PipelineTypeOK, PTL DEF Spec
=============================================================================
