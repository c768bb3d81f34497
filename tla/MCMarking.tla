------------------------------ MODULE MCMarking ------------------------------
(* Modules Marking and Results on two students and questions of each type. *)
EXTENDS Results

\* The first student may try twice.
MCBudget == <<2, 1>>
MCPaces == <<{1}, {1}>>

MCWatched == {<<1, 1>>}

Question(type, options, correct, points, penalty) ==
  [text |-> type, type |-> type, options |-> options, correct |-> correct,
   points |-> points, penalty |-> penalty]

\* The first is valid.
MCInputs ==
  {Question("single", <<"a", "b">>, <<"string", "a">>, 2, 1),
   Question("truefalse", <<>>, <<"string", "true">>, 1, Inherit),
   Question("single", <<"a", "b">>, <<"null", 0>>, 1, 0),
   Question("single", <<"a", "b">>, <<"string", "c">>, 1, 0),
   Question("multi", <<"a", "b">>, <<"keys", <<"a", "a">>>>, 1, 0),
   Question("multi", <<"a", "b">>, <<"null", 0>>, 1, 0),
   Question("short", <<>>, <<"accepted", <<>>>>, 1, 0)}

Cells(text, type, options, correct, points) ==
  [text |-> text, type |-> type, options |-> options, correct |-> correct,
   points |-> points, penalty |-> Inherit, excess |-> FALSE]

Blank == <<"", "", "">>

\* The first file is good; the others have a repeated text, a letter without an
\* option, a cell that is no number, a NaN, a cell too many, and a row too many.
MCFiles ==
  LET choice == Cells("t", "multi", <<"a", "", "c">>, <<"c", "a">>, 1)
      words == Cells("u", "short", Blank, <<"Five", "5.0">>, Inherit)
  IN  {<<choice, words>>,
       <<choice, choice>>,
       <<Cells("t", "multi", <<"a", "", "c">>, <<"b">>, 1)>>,
       <<Cells("u", "short", Blank, <<"5">>, NotANumber)>>,
       <<Cells("u", "short", Blank, <<"5">>, NaN)>>,
       <<[choice EXCEPT !.excess = TRUE]>>,
       <<choice, words, Cells("v", "truefalse", Blank, <<"true">>, 1)>>}

MCResponses == {<<"string", "a">>}

MCTexts == {"", "a", "b", "c", "5", "5.0", "Five", "five"}
MCNormalized == [t \in MCTexts |-> IF t = "Five" THEN "five" ELSE t]
MCParsedFloat == [t \in {"5", "5.0"} |-> 5]
==============================================================================
