----------------------------- MODULE Dictionary -----------------------------
(***************************************************************************)
(* What the dictionaries of the CQL runtime (facets, string, long, real,   *)
(* object and blob dictionaries) promise their callers: a map from texts   *)
(* to values, with one request at a time.                                  *)
(***************************************************************************)
CONSTANTS
  Text,   \* the contents of key strings
  Val,    \* the values stored
  None    \* no value, no request

VARIABLES
  dict,   \* the map: dict[t] is None where t has no entry
  req,    \* the request being served, None between requests
  ret     \* the result of the last request

vars == <<dict, req, ret>>

Empty == [t \in Text |-> None]

Request == [op : {"add", "upsert", "find"}, text : Text, val : Val]

Init == dict = Empty /\ req = None /\ ret = None

Call(r) == req = None /\ req' = r /\ UNCHANGED <<dict, ret>>

\* cql_facet_add: an existing entry is left alone.
Add ==
  /\ req # None /\ req.op = "add"
  /\ dict' = IF dict[req.text] = None
             THEN [dict EXCEPT ![req.text] = req.val]
             ELSE dict
  /\ ret' = IF dict[req.text] = None THEN "added" ELSE "exists"
  /\ req' = None

\* cql_facet_upsert and the add functions of the other dictionaries.
Upsert ==
  /\ req # None /\ req.op = "upsert"
  /\ dict' = [dict EXCEPT ![req.text] = req.val]
  /\ ret' = IF dict[req.text] = None THEN "added" ELSE "exists"
  /\ req' = None

Find ==
  /\ req # None /\ req.op = "find"
  /\ ret' = dict[req.text]
  /\ req' = None
  /\ UNCHANGED dict

\* The last reference to the dictionary goes, or a new one is made.
Reset == req = None /\ dict' = Empty /\ UNCHANGED <<req, ret>>

Next == (\E r \in Request : Call(r)) \/ Add \/ Upsert \/ Find \/ Reset

Spec == Init /\ [][Next]_vars
=============================================================================
