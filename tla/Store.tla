-------------------------------- MODULE Store --------------------------------
(***************************************************************************)
(* What a sharded service promises its clients: one dictionary, on which   *)
(* every request takes effect at one moment between its arrival and its    *)
(* answer, and the answer is the result of that moment.  A part of the     *)
(* dictionary may go down for good; its requests are then refused without  *)
(* effect, or never answered.                                              *)
(***************************************************************************)
CONSTANTS
    Requests,     \* identities of requests
    Operations,   \* what a request may ask for
    Keys,
    Values,
    None,         \* no value
    Parts,        \* the parts of the dictionary
    Part,         \* key -> the part that holds it
    PartOf        \* operation -> the part it is about

VARIABLES
    store,        \* key -> value or None
    status,       \* request -> how far it is
    asked,        \* request -> its operation
    result,       \* request -> its result
    down          \* parts that are gone

vars == <<store, status, asked, result, down>>

Init ==
    /\ store = [k \in Keys |-> None]
    /\ status = [r \in Requests |-> "new"]
    /\ asked = [r \in Requests |-> None]
    /\ result = [r \in Requests |-> None]
    /\ down = {}

Ok(body)    == [ok |-> TRUE, code |-> 0, body |-> body]
NotFound    == [ok |-> FALSE, code |-> 5, body |-> None]
Unavailable == [ok |-> FALSE, code |-> 14, body |-> None]

Found(k) == IF store[k] = None THEN NotFound ELSE Ok(store[k])

\* The entries of one part.
Listing(part) ==
    {<<k, store[k]>> : k \in {key \in Keys : store[key] # None /\ Part[key] = part}}

Invoke(r, operation) ==
    /\ status[r] = "new"
    /\ status' = [status EXCEPT ![r] = "invoked"]
    /\ asked' = [asked EXCEPT ![r] = operation]
    /\ UNCHANGED <<store, result, down>>

Give(r, res) ==
    /\ status' = [status EXCEPT ![r] = "applied"]
    /\ result' = [result EXCEPT ![r] = res]
    /\ UNCHANGED <<asked, down>>

Apply(r) ==
    /\ status[r] = "invoked"
    /\ PartOf[asked[r]] \notin down
    /\ LET o == asked[r] IN
         \/ /\ o.op = "get"
            /\ Give(r, Found(o.key))
            /\ UNCHANGED store
         \/ /\ o.op = "set"
            /\ Give(r, Ok(store[o.key]))
            /\ store' = [store EXCEPT ![o.key] = o.value]
         \/ /\ o.op = "delete"
            /\ Give(r, Found(o.key))
            /\ store' = [store EXCEPT ![o.key] = None]
         \/ /\ o.op = "list"
            /\ Give(r, Ok(Listing(PartOf[o])))
            /\ UNCHANGED store

Refuse(r) ==
    /\ status[r] = "invoked"
    /\ PartOf[asked[r]] \in down
    /\ Give(r, Unavailable)
    /\ UNCHANGED store

Answer(r) ==
    /\ status[r] = "applied"
    /\ status' = [status EXCEPT ![r] = "answered"]
    /\ UNCHANGED <<store, asked, result, down>>

PartFails(part) ==
    /\ part \notin down
    /\ down' = down \cup {part}
    /\ UNCHANGED <<store, status, asked, result>>

Next ==
    \/ \E r \in Requests :
         \/ \E operation \in Operations : Invoke(r, operation)
         \/ Apply(r)
         \/ Refuse(r)
         \/ Answer(r)
    \/ \E part \in Parts : PartFails(part)

Spec == Init /\ [][Next]_vars
=============================================================================
