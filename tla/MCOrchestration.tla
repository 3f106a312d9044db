--------------------------- MODULE MCOrchestration ---------------------------
(***************************************************************************)
(* Small instances of Orchestration.  Keys and sessions are                *)
(* interchangeable.  The facts are chosen around every threshold of the    *)
(* policy: ages -1, 24 and 25, incomes that obligations and commitment     *)
(* just exhaust, rates 35, 36 and 37, confidences below and above the      *)
(* minimum.                                                                *)
(***************************************************************************)
EXTENDS Orchestration, TLC

MCTexts == [code : Category \union {"none"}, features : [Category -> 0 .. 1]]
MCResponses == [category : {"opportunity", "stress", "unknown"}, confidence : {-1, 64, 65, 101},
                flaws : {{}} \union {{f} : f \in Flaws}]
MCContexts == [verified : BOOLEAN, age : {-1, 24, 25}, income : 0 .. 2, obligations : 0 .. 1,
               stressed : BOOLEAN]
MCProducts == [listed : {TRUE}, tier : {"low", "high", "support"},
               type : {"credit", "savings", "service"}, commitment : 0 .. 1, limit : {2, 4},
               rate : {35, 36, 37}, words : {{}, {"loan"}}]

Symmetry == Permutations(Keys) \union Permutations(Sessions)
=============================================================================
