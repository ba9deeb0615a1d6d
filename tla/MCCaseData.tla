------------------------------ MODULE MCCaseData ------------------------------
(***************************************************************************)
(* A small instance of CaseData: drafts, candidates and reference data that *)
(* differ from a clean case in one place.                                   *)
(***************************************************************************)
EXTENDS CaseData

CONSTANTS Acme, Apex, Name, PO, EUR, XXX, Bolt, Nut

Line(sku, qty, price) == [sku |-> sku, qty |-> qty, price |-> price]
Clean == [ref |-> Acme, name |-> Name, po |-> PO, ordered |-> 1, delivery |-> 1,
          currency |-> EUR, lines |-> <<Line(Bolt, 2, 10)>>]

WithLines(lines) == [Clean EXCEPT !.lines = lines]

OrderVariants ==
  { Clean, [Clean EXCEPT !.ref = None], [Clean EXCEPT !.ref = None, !.name = None],
    [Clean EXCEPT !.po = None], [Clean EXCEPT !.ordered = 2],
    [Clean EXCEPT !.currency = XXX] }

LineVariants ==
  { WithLines(<<>>), WithLines(<<Line(Nut, 2, 10)>>), WithLines(<<Line(Bolt, 4, 10)>>),
    WithLines(<<Line(Bolt, 2, 12)>>), WithLines(<<Line(Bolt, None, 10)>>),
    WithLines(<<Line(Bolt, 0, 10)>>), WithLines(<<Line(Bolt, 2, None)>>) }

MCCandidates ==
  { Clean, [Clean EXCEPT !.ref = None], [Clean EXCEPT !.po = Blank],
    WithLines(<<Line(Nut, 2, 10)>>), WithLines(<<Line(Bolt, 4, 10)>>),
    WithLines(<<Line(Bolt, 2, 11), Line(Nut, 1, 10)>>) }

Item(field, line, quoted) == [field |-> field, line |-> line, quoted |-> quoted]

MCResponses ==
  {[draft |-> d, evidence |-> <<>>] : d \in OrderVariants \cup LineVariants}
    \cup {[draft |-> [Clean EXCEPT !.po = Blank], evidence |-> <<>>],
          [draft |-> WithLines(<<Line(Bolt, Malformed, 10)>>), evidence |-> <<>>]}
    \cup {[draft |-> d, evidence |-> <<Item("po", 0, TRUE)>>] :
            d \in {Clean, [Clean EXCEPT !.po = None]}}
    \cup {[draft |-> Clean, evidence |-> e] :
            e \in {<<Item("po", 0, FALSE)>>, <<Item("sku", 2, TRUE)>>,
                   <<Item("po", 0, TRUE), Item("po", 0, TRUE)>>}}

Customer1(ref, active) == [ref |-> ref, name |-> Name, active |-> active]
Product(sku, active, stock, price, currency) ==
  [sku |-> sku, active |-> active, stock |-> stock, price |-> price,
   currency |-> currency]
World(customers, products) == [customers |-> customers, products |-> products]

BothProducts == {Product(Bolt, TRUE, 4, 10, EUR), Product(Nut, TRUE, 4, 10, EUR)}
OnlyBolt(active, stock, price, currency) ==
  World({Customer1(Acme, TRUE)}, {Product(Bolt, active, stock, price, currency)})

MCWorlds ==
  { World({Customer1(Acme, TRUE)}, BothProducts),
    World({Customer1(Acme, FALSE)}, BothProducts),
    World({Customer1(Acme, TRUE), Customer1(Apex, TRUE)}, BothProducts),
    World({}, BothProducts),
    OnlyBolt(TRUE, 3, 10, EUR), OnlyBolt(FALSE, 4, 10, EUR),
    OnlyBolt(TRUE, None, 10, EUR), OnlyBolt(TRUE, 4, None, EUR),
    OnlyBolt(TRUE, 4, 13, EUR), OnlyBolt(TRUE, 4, 10, XXX) }
==============================================================================
