---------------------------- MODULE QueryOptions ----------------------------
(***************************************************************************)
(* Query identifiers, settings and parameters on their way from QueryOpts  *)
(* to C: RawQueryOpts::new of src/src/query.rs, called by                  *)
(* Client::send_query_with and IolessClient::send_query_with.              *)
(*                                                                         *)
(* RawQueryOpts copies every name and value into a CString, collects their *)
(* addresses in two C arrays, and puts the addresses of the arrays in the  *)
(* raw structure.  It is built in new's frame and moved to the caller's, C *)
(* reads all of it through pointers, and it is then dropped.  The two      *)
(* frames are memory like the rest, so `heap` holds them too.              *)
(***************************************************************************)
EXTENDS CStrings

CONSTANTS
    MaxSettings,
    MaxParams,
    Flagged     \* whether settings carry the important and custom flags

Settings == [name : Given, value : Given,
             important : IF Flagged THEN BOOLEAN ELSE {FALSE},
             custom : IF Flagged THEN BOOLEAN ELSE {FALSE}]
Params == [name : Given, value : Given]

QueryOpts(id, s, p) == [query_id |-> id, settings |-> s, params |-> p]
NoOpts == QueryOpts(Absent, <<>>, <<>>)

VARIABLES
    opts,       \* the options of the call in progress
    stage,      \* how far the call has come
    heap,       \* allocated buffers by address
    owned,      \* _owned: addresses of the CStrings, in the order they were pushed
    settings,   \* address of the settings array, None while it holds nothing
    params,     \* address of the parameter array, None while it holds nothing
    raw,        \* address of the raw structure, None before there is one
    seen,       \* what C found by following the pointers
    result      \* what the last call returned: "none", "Ok", "Usage",
                \* "Io" for what C reports

queryVars == <<opts, stage, heap, owned, settings, params, raw, seen, result>>

Init ==
    /\ opts = NoOpts /\ stage = "idle" /\ heap = <<>> /\ owned = <<>>
    /\ settings = None /\ params = None /\ raw = None
    /\ seen = NoOpts /\ result = "none"

-----------------------------------------------------------------------------
(* RawQueryOpts::new *)

\* Names and values in the order they are pushed: settings first, then parameters.
Pushed(o) ==
    LET both == [i \in 1..Len(o.settings) + Len(o.params) |->
                    IF i <= Len(o.settings) THEN o.settings[i]
                    ELSE o.params[i - Len(o.settings)]]
    IN  [k \in 1..2 * Len(both) |->
            IF k % 2 = 1 THEN both[(k + 1) \div 2].name ELSE both[k \div 2].value]

send_query_with ==
    /\ stage = "idle"
    /\ \E m \in 0..MaxSettings, n \in 0..MaxParams, id \in Given \cup {Absent} :
          \E s \in [1..m -> Settings], p \in [1..n -> Params] :
             opts' = QueryOpts(id, s, p)
    /\ stage' = "owning" /\ result' = "none"
    /\ UNCHANGED <<heap, owned, settings, params, raw, seen>>

NextString == Pushed(opts)[Len(owned) + 1]

\* owned.push(cstring(..)?): growing the vector moves the CString handles, not the
\* buffers they own.
Push ==
    /\ stage = "owning" /\ Len(owned) < Len(Pushed(opts))
    /\ cstring(NextString) = "Ok"
    /\ heap' = Store(heap, NextString)
    /\ owned' = Append(owned, Fresh(heap))
    /\ UNCHANGED <<opts, stage, settings, params, raw, seen, result>>

\* The ? returns, and what was pushed is dropped with the vector.
PushFails ==
    /\ stage = "owning" /\ Len(owned) < Len(Pushed(opts))
    /\ cstring(NextString) = "Usage"
    /\ heap' = Free(heap, Buffers(owned)) /\ owned' = <<>>
    /\ stage' = "idle" /\ opts' = NoOpts /\ result' = "Usage"
    /\ UNCHANGED <<settings, params, raw, seen>>

\* Mutant: a second iterator over the copies, which starts again at the settings.
ParamAt_restarts(i) == [name |-> owned[2 * i - 1], value |-> owned[2 * i]]

\* `next` runs on from the settings to the parameters.
Drawn(k) == owned[k]
SettingAt(i) == [name |-> Drawn(2 * i - 1), value |-> Drawn(2 * i),
                 important |-> opts.settings[i].important,
                 custom |-> opts.settings[i].custom]
ParamAt(i) == LET k == 2 * (Len(opts.settings) + i)
              IN  [name |-> Drawn(k - 1), value |-> Drawn(k)]

\* A Vec of nothing allocates nothing.
Collect(seq) == IF seq = <<>> THEN [at |-> None, heap |-> heap]
                ELSE [at |-> Fresh(heap), heap |-> Store(heap, seq)]

CollectSettings ==
    /\ stage = "owning" /\ Len(owned) = Len(Pushed(opts))
    /\ LET c == Collect([i \in DOMAIN opts.settings |-> SettingAt(i)])
       IN  settings' = c.at /\ heap' = c.heap
    /\ stage' = "params"
    /\ UNCHANGED <<opts, owned, params, raw, seen, result>>

CollectParams ==
    /\ stage = "params"
    /\ LET c == Collect([i \in DOMAIN opts.params |-> ParamAt(i)])
       IN  params' = c.at /\ heap' = c.heap
    /\ stage' = "built"
    /\ UNCHANGED <<opts, owned, settings, raw, seen, result>>

\* The identifier is passed by address and length, not copied and not checked.
Seal ==
    /\ stage = "built"
    /\ heap' = Store(heap, [query_id |-> opts.query_id,
                            settings |-> settings, n_settings |-> Len(opts.settings),
                            params |-> params, n_params |-> Len(opts.params)])
    /\ raw' = Fresh(heap)
    /\ stage' = "sealed"
    /\ UNCHANGED <<opts, owned, settings, params, seen, result>>

\* Ok(this) moves the structure and new's frame is gone; as_ptr() is taken after.
Return ==
    /\ stage = "sealed"
    /\ heap' = Free(Store(heap, heap[raw]), {raw})
    /\ raw' = Fresh(heap)
    /\ stage' = "calling"
    /\ UNCHANGED <<opts, owned, settings, params, seen, result>>

-----------------------------------------------------------------------------
(* chc_client_send_query_ex and the end of the call *)

\* C reads n elements of an array and the string behind each pointer in them.
Element(p, i) == LET array == Load(heap, p) IN IF i \in DOMAIN array THEN array[i] ELSE Garbage

ReadSetting(i) == LET e == Element(heap[raw].settings, i)
                  IN  [e EXCEPT !.name = Load(heap, e.name), !.value = Load(heap, e.value)]
ReadParam(i) == LET e == Element(heap[raw].params, i)
                IN  [e EXCEPT !.name = Load(heap, e.name), !.value = Load(heap, e.value)]

\* The call may fail before C has read all of it.
chc_client_send_query_ex ==
    /\ stage = "calling"
    /\ \/ /\ seen' = [query_id |-> heap[raw].query_id,
                      settings |-> [i \in 1..heap[raw].n_settings |-> ReadSetting(i)],
                      params |-> [i \in 1..heap[raw].n_params |-> ReadParam(i)]]
          /\ result' = "Ok"
       \/ result' = "Io" /\ UNCHANGED seen
    /\ stage' = "returned"
    /\ UNCHANGED <<opts, heap, owned, settings, params, raw>>

\* raw_opts goes out of scope.
Drop ==
    /\ stage = "returned"
    /\ heap' = Free(heap, Buffers(owned) \cup {settings, params, raw})
    /\ owned' = <<>> /\ settings' = None /\ params' = None /\ raw' = None
    /\ stage' = "idle" /\ opts' = NoOpts /\ seen' = NoOpts
    /\ UNCHANGED result

Next ==
    \/ send_query_with \/ Push \/ PushFails \/ CollectSettings \/ CollectParams \/ Seal \/ Return
    \/ chc_client_send_query_ex \/ Drop

Spec == Init /\ [][Next]_queryVars

-----------------------------------------------------------------------------
(* Properties *)

\* When the call returns Ok, C has read the identifier, every setting with its own
\* value and flags and every parameter with its own value, in the order the
\* application gave them, whatever was allocated and moved in between.
SeenAsAsked == stage = "returned" /\ result = "Ok" => seen = opts
=============================================================================
