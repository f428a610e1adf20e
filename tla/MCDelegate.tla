------------------------------ MODULE MCDelegate ------------------------------
EXTENDS Delegate

(* lead is read-only, calls helper, which is not; price has a schema.      *)
MCOffers ==
  [lead |-> {"helper", "save"}, helper |-> {"save", "ask"}, price |-> {"pay"}]

MCCalls == <<"lead", "price", "pay">>

MCFields == {[x \in {"usd"} |-> t] : t \in {"number", "boolean", "string"}}

MCResults ==
  {[type |-> "object", fields |-> f] : f \in MCFields}
    \cup {[type |-> "object", fields |-> [x \in {} |-> "null"]],
          [type |-> "null", fields |-> [x \in {} |-> "null"]]}

MCSchema ==
  [a \in {"price"} |->
     [type |-> "object", required |-> {"usd"}, properties |-> [x \in {"usd"} |-> "number"]]]

MCQuestions == [ask |-> 1, save |-> 0, pay |-> 1]
=============================================================================
