----------------------------- MODULE MCTwinEngine -----------------------------
(* TwinEngine with three twins of two variables and short messages.        *)
EXTENDS TwinEngine

Header(type, twin_id) == <<IntItem(type), IntItem(0), IntItem(0), IntItem(twin_id)>>

UpdateOf(twin_id, ids) ==
    [array_size |-> HEADER + 1 + 2 * Len(ids),
     items      |-> Header(EVENT_UPDATE, twin_id) \o <<IntItem(Len(ids))>> \o
         [k \in 1 .. 2 * Len(ids) |->
             IF k % 2 = 1 THEN IntItem(ids[(k + 1) \div 2]) ELSE FloatItem(Zero)]]

ErrorOf(twin_id, code) ==
    [array_size |-> HEADER + 1,
     items      |-> Header(EVENT_ERROR, twin_id) \o <<IntItem(code)>>]

UpdateRule(t, v, a) ==
    [rule |-> "update", twin_id |-> t, var_id |-> v, action |-> a]
ErrorRule(c, a) == [rule |-> "error", code |-> c, action |-> a]

\* Twin 0 notifies variable 0 and calls the user's service for variable 1;
\* twin 1 notifies variable 0; a rule for a twin that does not exist is
\* ignored.
MCRules ==
    <<UpdateRule(0, 0, "NOTIFY_UPWARDS"), UpdateRule(0, 1, "CALL_USER_SERVICE"),
      UpdateRule(1, 0, "NOTIFY_UPWARDS"), UpdateRule(3, 0, "NOTIFY_UPWARDS"),
      ErrorRule(3, "HALT_ENGINE")>>

\* Two batches with variable 0 in both; one batch, with a variable whose id
\* wraps to 0 in a byte; a variable that does not exist, of a twin without rules
\* or connector; a twin that does not exist; an error; a message that is rejected.
MCMessages ==
    {UpdateOf(0, <<0, 1, 0>>), UpdateOf(1, <<0, 256>>), UpdateOf(2, <<2>>),
     UpdateOf(3, <<0>>), ErrorOf(0, 1),
     [UpdateOf(0, <<0>>) EXCEPT !.array_size = 5]}

\* An error of each kind, and an update to come after it.
MCErrorMessages == {ErrorOf(0, c) : c \in 0 .. 2} \cup {UpdateOf(1, <<0>>)}

\* Rules as rule_engine_init leaves them, but for one notified variable.
MCOneRule == <<UpdateRule(1, 0, "NOTIFY_UPWARDS")>>
===============================================================================
