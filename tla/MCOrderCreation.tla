--------------------------- MODULE MCOrderCreation ---------------------------
(* A small instance of OrderCreation for TLC. *)
EXTENDS OrderCreation, TLC

\* Steps of a quarter of a thousandth and of half a cent: 4000 is a quantity
\* of 1, and 2 a price of 0.01.
MCBasket == {
  << >>,
  \* 6.4 cents: 6 and 1 make 8.
  <<[number |-> 1, quantity |-> 25600, price |-> 2]>>,
  \* Four lines of 0.49 cents: 1.96 in all, and nothing each.
  <<[number |-> 1, quantity |-> 1960, price |-> 2], [number |-> 2, quantity |-> 1960, price |-> 2],
    [number |-> 3, quantity |-> 1960, price |-> 2], [number |-> 4, quantity |-> 1960, price |-> 2]>>,
  \* A discount that leaves -0.4 cents, which are stored as 0.
  <<[number |-> 1, quantity |-> 4000, price |-> 2], [number |-> 2, quantity |-> 5600, price |-> -2]>>,
  \* A discount larger than the rest.
  <<[number |-> 1, quantity |-> 4000, price |-> 2], [number |-> 2, quantity |-> 8000, price |-> -2]>>,
  \* Quantities that are stored as 0 and as 0.001.
  <<[number |-> 1, quantity |-> 1, price |-> 200]>>,
  <<[number |-> 1, quantity |-> 2, price |-> 199]>>,
  \* Two lines with one number.
  <<[number |-> 1, quantity |-> 4000, price |-> 2], [number |-> 1, quantity |-> 4000, price |-> 3]>>,
  \* Nine dollars, whose total passes the limit of ten.
  <<[number |-> 1, quantity |-> 36000, price |-> 200]>> }

RequestSymmetry == Permutations(Request \ Faulty)

=============================================================================
