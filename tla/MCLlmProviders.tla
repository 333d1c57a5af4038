--------------------------- MODULE MCLlmProviders ---------------------------
(* Small instances of LlmProviders.                                        *)
EXTENDS LlmProviders, TLC

Asked(op, p, version, entry, first) ==
  [op |-> op, p |-> p, key |-> IF version = 0 THEN NoKey ELSE <<p, version>>,
   entry |-> entry, first |-> first]

(* Each kind of request, the edits with a new key and with a masked one, a *)
(* default that moves, an entry the facade cannot load and one it can load *)
(* and not use.                                                            *)
MCRequests ==
  {Asked("add", 2, 1, "plain", FALSE), Asked("update", 1, 2, "broken", FALSE),
   Asked("update", 1, 0, "env", TRUE), Asked("delete", 1, 0, "plain", FALSE),
   Asked("keys", 0, 2, "plain", FALSE), Asked("document", 2, 0, "blank", FALSE),
   Asked("test", 1, 0, "plain", FALSE)}

(* The files of the unit test, and old ones on which the facade does not   *)
(* come up: an entry of a wrong type, no default, one key at the top.      *)
MCOldFiles ==
  {<<[torn |-> FALSE, default |-> 1, of |-> (1 :> "plain")],
     [torn |-> FALSE, legacy |-> NoKey, of |-> (1 :> <<1, 1>>)]>>,
   <<[torn |-> FALSE, default |-> None, of |-> (1 :> "broken")],
     [torn |-> FALSE, legacy |-> LegacyKey, of |-> <<>>]>>}
=============================================================================
