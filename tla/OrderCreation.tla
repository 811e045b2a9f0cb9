---------------------------- MODULE OrderCreation ----------------------------
(***************************************************************************)
(* POST /purchase-orders from concurrent requests: the number, the         *)
(* amounts and the line items of a new order, statement by statement.      *)
(*                                                                         *)
(* Amounts are computed on the exact decimals of the request and rounded   *)
(* by PostgreSQL, each column on its own: quantity to thousandths, money   *)
(* to cents.  A quantity is counted in QuantityUnit-ths of a thousandth, a *)
(* unit price in PriceUnit-ths of a cent, so that a product of the two is  *)
(* exact and Cent of them are a cent.                                      *)
(*                                                                         *)
(*    idle -> drawn -> inserted -> flushed -> done                         *)
(*                                                                         *)
(* The foreign keys of an order are VendorDirectory's, what happens to it  *)
(* afterwards OrderWorkflow's.                                             *)
(***************************************************************************)
EXTENDS Integers, Sequences, FiniteSetsExt

CONSTANTS
  Request,       \* HTTP requests, each executed once; an order has its request as key
  Faulty,        \* requests that may be killed or lose the database
  PONumber,      \* po_numbers that may be drawn
  Basket,        \* the line_items of a request body: sequences of Line
  QuantityUnit,  \* steps of the quantities of requests in a thousandth
  PriceUnit,     \* steps of the prices of requests in a cent
  AmountLimit,   \* cents that no longer fit into Numeric(15, 2)
  QuantityLimit, \* thousandths that no longer fit into Numeric(10, 3)
  None           \* no row, no basket, no number, no answer

Line == [number : Int, quantity : Int, price : Int]

\* sum(item.quantity * item.unit_price for item in line_items)
Subtotal(b) ==
  LET sum[i \in 0..Len(b)] ==
        IF i = 0 THEN 0 ELSE sum[i - 1] + b[i].quantity * b[i].price
  IN sum[Len(b)]

Amount == (1 - AmountLimit)..(AmountLimit - 1)

OrderRow == [number : PONumber, subtotal : Amount, tax : Amount, total : Amount]

\* quantity > 0 is a CHECK of the table.
LineRow == [number : Int, quantity : 1..(QuantityLimit - 1), price : Amount, total : Amount]

\* The row and the line items a transaction has flushed.
Flushed == [order : OrderRow \cup {None}, lines : SUBSET LineRow]

\* What the client is shown: the order, and lines with exact decimals.
Printed == [number : Int, quantity : Int, price : Int, total : Int]
Body == [order : OrderRow, lines : SUBSET Printed]

ASSUME OrderCreationAssumption ==
  /\ Faulty \subseteq Request
  /\ {QuantityUnit, PriceUnit, AmountLimit, QuantityLimit} \subseteq Nat \ {0}
  /\ Basket \subseteq Seq(Line)
  /\ None \notin OrderRow \cup PONumber \cup Basket \cup Body

VARIABLES
  order,  \* committed purchase_orders rows
  lines,  \* committed po_line_items rows of each order
  tx,     \* what each request has flushed and not committed
  pc,     \* where each request stands
  basket, \* the line items each request asks for
  number, \* the po_number it has drawn
  body,   \* what it is about to answer
  resp    \* the status the client got

rows == <<order, lines>>
vars == <<order, lines, tx, pc, basket, number, body, resp>>

NothingFlushed == [order |-> None, lines |-> {}]

Init ==
  /\ order = [r \in Request |-> None]
  /\ lines = [r \in Request |-> {}]
  /\ tx = [r \in Request |-> NothingFlushed]
  /\ pc = [r \in Request |-> "idle"]
  /\ basket = [r \in Request |-> None]
  /\ number = [r \in Request |-> None]
  /\ body = [r \in Request |-> None]
  /\ resp = [r \in Request |-> "none"]

-----------------------------------------------------------------------------
(* Amounts.                                                                *)

Cent == 1000 * QuantityUnit * PriceUnit

\* What a Numeric column keeps of x steps, unit of which make its last digit:
\* PostgreSQL rounds half away from zero.
Rounded(x, unit) ==
  IF x >= 0 THEN (2 * x + unit) \div (2 * unit) ELSE -((unit - 2 * x) \div (2 * unit))

\* _calculate_totals and what the columns keep of it.  The tax is 19 per
\* cent: the exact sums are counted in hundredths.
Totals(b) ==
  LET s == Subtotal(b) IN
    [subtotal |-> Rounded(100 * s, 100 * Cent),
     tax      |-> Rounded(19 * s, 100 * Cent),
     total    |-> Rounded(119 * s, 100 * Cent)]

\* Mutation: the total is taken from the rounded lines.
OrderRowOf_RoundedLines(n, b) ==
  LET sum[i \in 0..Len(b)] ==
        IF i = 0 THEN 0 ELSE sum[i - 1] + Rounded(b[i].quantity * b[i].price, Cent)
  IN [number |-> n, subtotal |-> Totals(b).subtotal, tax |-> Totals(b).tax,
      total |-> Rounded(119 * sum[Len(b)], 100)]

\* The row of an order.
OrderRowOf(n, b) ==
  LET t == Totals(b) IN
    [number |-> n, subtotal |-> t.subtotal, tax |-> t.tax, total |-> t.total]

\* Mutation: total_price is the price of one.
LineRowOf_OnePiece(l) ==
  [number |-> l.number, quantity |-> Rounded(l.quantity, QuantityUnit),
   price |-> Rounded(l.price, PriceUnit), total |-> Rounded(l.price, PriceUnit)]

\* The row of a line: POLineItem(quantity, unit_price, quantity * unit_price).
LineRowOf(l) ==
  [number |-> l.number, quantity |-> Rounded(l.quantity, QuantityUnit),
   price |-> Rounded(l.price, PriceUnit), total |-> Rounded(l.quantity * l.price, Cent)]

LineRowsOf(b) == {LineRowOf(b[i]) : i \in DOMAIN b}

\* The instance keeps what it was made with: only the order is refreshed
\* after its flush, and the SELECT of get_by_id leaves the lines that are in
\* the identity map as they are.
PrintedLines(b) ==
  {[number |-> b[i].number, quantity |-> b[i].quantity, price |-> b[i].price,
    total |-> b[i].quantity * b[i].price] : i \in DOMAIN b}

-----------------------------------------------------------------------------
(* Statements.                                                             *)

Taken(n) == \E q \in Request : order[q] # None /\ order[q].number = n
Pending(r, n) == \E q \in Request \ {r} : tx[q].order # None /\ tx[q].order.number = n

\* A po_number is drawn and looked for among the committed orders; if it is
\* there another one is drawn, and not looked for.
Draw(r, b) ==
  /\ pc[r] = "idle"
  /\ \E first \in PONumber :
       IF Taken(first)
       THEN \E second \in PONumber : number' = [number EXCEPT ![r] = second]
       ELSE number' = [number EXCEPT ![r] = first]
  /\ pc' = [pc EXCEPT ![r] = "drawn"]
  /\ basket' = [basket EXCEPT ![r] = b]
  /\ UNCHANGED <<rows, tx, body, resp>>

\* get_db rolls back and the handlers of main.py answer.
Fail(r, answer) ==
  /\ tx' = [tx EXCEPT ![r] = NothingFlushed]
  /\ pc' = [pc EXCEPT ![r] = "done"]
  /\ resp' = [resp EXCEPT ![r] = answer]
  /\ UNCHANGED <<rows, basket, number, body>>

\* Mutation: the columns have no precision.
OrderFits_AnyPrecision(row) == row.total >= 0

\* What the columns of purchase_orders take: Numeric(15, 2), and the CHECK of
\* the total.
OrderFits(row) ==
  /\ {row.subtotal, row.tax, row.total} \subseteq Amount
  /\ row.total >= 0

\* Mutation: po_number is not UNIQUE.
InsertOrder_NotUnique(r) ==
  /\ pc[r] = "drawn"
  /\ LET row == OrderRowOf(number[r], basket[r]) IN
       IF ~OrderFits(row)
       THEN Fail(r, "500")
       ELSE /\ tx' = [tx EXCEPT ![r].order = row]
            /\ pc' = [pc EXCEPT ![r] = "inserted"]
            /\ UNCHANGED <<rows, basket, number, body, resp>>

\* Mutation: the repository commits what it creates.
InsertOrder_Autocommit(r) ==
  /\ pc[r] = "drawn"
  /\ ~Pending(r, number[r])
  /\ LET row == OrderRowOf(number[r], basket[r]) IN
       IF Taken(number[r]) \/ ~OrderFits(row)
       THEN Fail(r, "500")
       ELSE /\ tx' = [tx EXCEPT ![r].order = row]
            /\ order' = [order EXCEPT ![r] = row]
            /\ pc' = [pc EXCEPT ![r] = "inserted"]
            /\ UNCHANGED <<lines, basket, number, body, resp>>

\* INSERT INTO purchase_orders, and the refresh of the instance: it waits for
\* uncommitted orders of the same number, and raises if the number is taken.
InsertOrder(r) ==
  /\ pc[r] = "drawn"
  /\ ~Pending(r, number[r])
  /\ LET row == OrderRowOf(number[r], basket[r]) IN
       IF Taken(number[r]) \/ ~OrderFits(row)
       THEN Fail(r, "500")
       ELSE /\ tx' = [tx EXCEPT ![r].order = row]
            /\ pc' = [pc EXCEPT ![r] = "inserted"]
            /\ UNCHANGED <<rows, basket, number, body, resp>>

\* What po_line_items takes of a basket: Numeric columns, the CHECK of the
\* quantity and the UNIQUE line numbers of an order.
LinesFit(b) ==
  /\ LineRowsOf(b) \subseteq LineRow
  /\ \A i, j \in DOMAIN b : i # j => b[i].number # b[j].number

\* Mutation: the instance of the order is not refreshed either.
InsertLines_Stale(r) ==
  /\ pc[r] = "inserted"
  /\ IF ~LinesFit(basket[r])
     THEN Fail(r, "500")
     ELSE /\ tx' = [tx EXCEPT ![r].lines = LineRowsOf(basket[r])]
          /\ body' = [body EXCEPT ![r] =
               [order |-> [tx[r].order EXCEPT !.subtotal = Subtotal(basket[r]) \div Cent],
                lines |-> PrintedLines(basket[r])]]
          /\ pc' = [pc EXCEPT ![r] = "flushed"]
          /\ UNCHANGED <<rows, basket, number, resp>>

\* INSERT INTO po_line_items, all in one flush, and the answer the route makes
\* of the instances.
InsertLines(r) ==
  /\ pc[r] = "inserted"
  /\ IF ~LinesFit(basket[r])
     THEN Fail(r, "500")
     ELSE /\ tx' = [tx EXCEPT ![r].lines = LineRowsOf(basket[r])]
          /\ body' = [body EXCEPT ![r] =
               [order |-> tx[r].order, lines |-> PrintedLines(basket[r])]]
          /\ pc' = [pc EXCEPT ![r] = "flushed"]
          /\ UNCHANGED <<rows, basket, number, resp>>

\* What a commit makes of the rows.
Persist(r) ==
  /\ order' = [order EXCEPT ![r] = tx[r].order]
  /\ lines' = [lines EXCEPT ![r] = tx[r].lines]
  /\ tx' = [tx EXCEPT ![r] = NothingFlushed]
  /\ pc' = [pc EXCEPT ![r] = "done"]
  /\ UNCHANGED <<basket, number, body>>

\* get_db commits, and then the answer leaves.
Commit(r) ==
  /\ pc[r] = "flushed"
  /\ Persist(r)
  /\ resp' = [resp EXCEPT ![r] = "201"]

\* The commit succeeds and its acknowledgement is lost.
CommitUnacknowledged(r) ==
  /\ r \in Faulty /\ pc[r] = "flushed"
  /\ Persist(r)
  /\ \E answer \in {"500", "lost"} : resp' = [resp EXCEPT ![r] = answer]

\* The process dies or the database is lost before the commit.
Fault(r) ==
  /\ r \in Faulty /\ pc[r] \in {"drawn", "inserted", "flushed"}
  /\ \E answer \in {"500", "lost"} : Fail(r, answer)

Arrive(r) == \E b \in Basket : Draw(r, b)
Proceed(r) == InsertOrder(r) \/ InsertLines(r) \/ Commit(r)

Next == \E r \in Request : Arrive(r) \/ Proceed(r) \/ CommitUnacknowledged(r) \/ Fault(r)

Spec == Init /\ [][Next]_vars

-----------------------------------------------------------------------------
(* Properties.                                                             *)

\* Rows, whether committed or flushed, keep to the width of their columns,
\* and whatever is computed from a basket fits into what is shown.
TypeOK ==
  /\ order \in [Request -> OrderRow \cup {None}]
  /\ lines \in [Request -> SUBSET LineRow]
  /\ tx \in [Request -> Flushed]
  /\ pc \in [Request -> {"idle", "drawn", "inserted", "flushed", "done"}]
  /\ basket \in [Request -> Basket \cup {None}]
  /\ number \in [Request -> PONumber \cup {None}]
  /\ body \in [Request -> Body \cup {None}]
  /\ resp \in [Request -> {"none", "201", "500", "lost"}]

\* No two orders share a po_number, although a second draw is not looked for
\* and the first only among committed orders.
NumbersAreUnique ==
  \A q, r \in Request :
    q # r /\ order[q] # None /\ order[r] # None => order[q].number # order[r].number

\* An order is there with the lines it was asked for, all of them, with a
\* number that was drawn for it and a request that got to its end; without
\* its order no line is.  Order and lines are two flushes of one transaction.
OrdersComeWhole ==
  \A r \in Request :
    /\ order[r] # None =>
         /\ pc[r] = "done"
         /\ order[r] = OrderRowOf(number[r], basket[r])
         /\ lines[r] = LineRowsOf(basket[r])
    /\ order[r] = None => lines[r] = {}

\* Three columns rounded one by one still tally to a cent, and none of them
\* is negative although the table only checks the total.
AmountsTally ==
  \A r \in Request : order[r] # None =>
    /\ order[r].subtotal + order[r].tax - order[r].total \in {-1, 0, 1}
    /\ order[r].subtotal >= 0 /\ order[r].tax >= 0

\* The subtotal of an order is what its lines add up to, but for half a cent
\* of each rounding.
LinesExplainSubtotal ==
  \A r \in Request : order[r] # None =>
    LET sum == MapThenSumSet(LAMBDA l : l.total, lines[r])
        slack == Cardinality(lines[r]) + 1
    IN 2 * (order[r].subtotal - sum) \in (-slack)..slack

\* A 201 shows the order as it is in the table, and lines that are the rows of
\* the table before their columns rounded them; a 500 of a request no fault
\* can reach left nothing.
AnswersMatchRows ==
  \A r \in Request :
    /\ resp[r] = "201" =>
         /\ order[r] # None
         /\ body[r].order = order[r]
         /\ lines[r] = {LineRowOf(l) : l \in body[r].lines}
    /\ resp[r] = "500" /\ r \notin Faulty => order[r] = None

-----------------------------------------------------------------------------
(* The inductive invariant behind the properties above.                     *)

\* What a request has flushed is what it was asked for, as far as it got, and
\* is nowhere else yet; what it is about to answer is what it has flushed.
FlushedAsAsked ==
  \A r \in Request :
    /\ pc[r] = "idle" => order[r] = None /\ resp[r] = "none"
    /\ pc[r] \in {"idle", "drawn", "done"} => tx[r] = NothingFlushed
    /\ pc[r] \in {"drawn", "inserted", "flushed"} =>
         /\ basket[r] \in Basket /\ number[r] \in PONumber
         /\ order[r] = None /\ resp[r] = "none"
    /\ pc[r] \in {"inserted", "flushed"} =>
         /\ tx[r].order = OrderRowOf(number[r], basket[r])
         /\ tx[r].order \in OrderRow /\ tx[r].order.total >= 0
    /\ pc[r] = "inserted" => tx[r].lines = {}
    /\ pc[r] = "flushed" =>
         /\ tx[r].lines = LineRowsOf(basket[r])
         /\ body[r] = [order |-> tx[r].order, lines |-> PrintedLines(basket[r])]

\* The number of an uncommitted order belongs to no other.
NumberReserved ==
  \A r \in Request : tx[r].order # None =>
    ~Taken(tx[r].order.number) /\ ~Pending(r, tx[r].order.number)

\* The CHECK of the total held when an order was inserted.
TotalChecked ==
  \A r \in Request : order[r] # None =>
    /\ basket[r] \in Basket /\ number[r] \in PONumber
    /\ order[r].total >= 0

\* Lines that are there were taken: no two of an order share a number.
LinesChecked ==
  \A r \in Request : pc[r] = "flushed" \/ order[r] # None => LinesFit(basket[r])

Inductive ==
  /\ TypeOK
  /\ NumbersAreUnique
  /\ OrdersComeWhole
  /\ AnswersMatchRows
  /\ FlushedAsAsked
  /\ NumberReserved
  /\ TotalChecked
  /\ LinesChecked

=============================================================================
