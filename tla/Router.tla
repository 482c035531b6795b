------------------------------- MODULE Router -------------------------------
(***************************************************************************)
(* The router (SmartRouter in gateway/router.py) and what becomes of its   *)
(* decisions: a request is routed once, when it arrives, against the       *)
(* profile that is active then, waits for its turn and swaps if another    *)
(* profile is active by the time it gets it.                               *)
(*                                                                         *)
(* A name is a sequence of parts ("qwen3.8", "flash", "next"), lower case  *)
(* as the code makes every name it compares; containment of strings is     *)
(* containment of such sequences.                                          *)
(***************************************************************************)
EXTENDS Integers, Sequences, FiniteSets, SequencesExt

CONSTANTS
    Requests,
    Texts,         \* what a client may put into "model", blanks around it left out
    Catalogues     \* values of PROFILES, in order; the first is PROFILE_DEEPSEEK

Auto == <<"auto">>
Chat == <<"chat">>
Code == <<"code">>
None == 0
NoRequest == [hint |-> [text |-> <<>>, padded |-> FALSE], profile |-> None, model |-> <<>>,
              at |-> None]

\* Every profile has a model, models have names, and labels are of own models.
CatalogueAssumption ==
    \A c \in Catalogues :
        /\ Len(c) \in Nat \ {0}
        /\ \A p \in 1..Len(c) :
               /\ c[p].models \in Seq(Seq(STRING) \ {<<>>}) \ {<<>>}
               /\ \A l \in DOMAIN c[p].labels : c[p].labels[l] \in ToSet(c[p].models)

VARIABLES
    PROFILES,   \* the catalogue: sequence of [models, labels]
    active,     \* index of the active profile, or None
    swap,       \* index of the profile a swap in flight loads, or None
    request,    \* requests at hand: hint, decision, the profile active at routing
    waiting     \* requests that wait for admission, in order

vars == <<PROFILES, active, swap, request, waiting>>

Profiles == 1..Len(PROFILES)
Models(p) == ToSet(PROFILES[p].models)

Init ==
    /\ PROFILES \in Catalogues
    /\ active \in {None} \cup Profiles
    /\ swap = None
    /\ request = [r \in Requests |-> NoRequest]
    /\ waiting = <<>>

-----------------------------------------------------------------------------
(* Routing *)

\* request.model.strip() and request.model: blanks around a text make it another
\* string, which no name contains.
Strip(hint) == hint.text
Raw(hint) == hint.text \o (IF hint.padded THEN <<" ">> ELSE <<>>)

In(s, t) == \E i \in 0..(Len(t) - Len(s)) : SubSeq(t, i + 1, i + Len(s)) = s
Related(requested, name) == In(requested, name) \/ In(name, requested)

\* The loop of _find_profile_for_model and of _match_global: what it keeps of
\* the best match so far and the next model, where an exact one ends it,
Better(requested, best, e) ==
    IF /\ best.name # requested
       /\ e.name = requested \/ (Related(requested, e.name) /\ Len(e.name) > Len(best.name))
      THEN e ELSE best

\* what it has kept after each model of a profile,
Scan(requested, p, best) ==
    LET scan[i \in 0..Len(PROFILES[p].models)] ==
          IF i = 0 THEN best
          ELSE Better(requested, scan[i - 1], [profile |-> p, name |-> PROFILES[p].models[i]])
    IN  scan

\* and after each profile.
ScanAll(requested) ==
    LET scan[p \in 0..Len(PROFILES)] ==
          IF p = 0 THEN [profile |-> None, name |-> <<>>]
          ELSE Scan(requested, p, scan[p - 1])[Len(PROFILES[p].models)]
    IN  scan

BestMatch(requested) == ScanAll(requested)[Len(PROFILES)]

FindProfileForModel(requested) == BestMatch(requested).profile
MatchGlobal(requested) == BestMatch(requested).name

SelectProfile(hint, act) ==
    LET found == IF Strip(hint) \in {<<>>, Auto} THEN None
                 ELSE FindProfileForModel(Strip(hint))
    IN IF found # None THEN found ELSE IF act # None THEN act ELSE 1

\* The model under the first of these labels that the profile has.
Labelled(p, labels) ==
    LET own == SelectInSeq(labels, LAMBDA l : l \in DOMAIN PROFILES[p].labels)
    IN IF own = 0 THEN Head(PROFILES[p].models) ELSE PROFILES[p].labels[labels[own]]

\* Deviation: a match of the global catalogue is taken from any profile.
SelectModelAnywhere(hint, p) ==
    LET requested == Raw(hint)
        own == SelectInSeq(PROFILES[p].models, LAMBDA m : Related(requested, m))
    IN IF requested \in {<<>>, Auto} THEN Labelled(p, <<Chat>>)
       ELSE IF own # 0 THEN PROFILES[p].models[own]
       ELSE IF MatchGlobal(requested) # <<>> THEN MatchGlobal(requested)
       ELSE Labelled(p, <<Code, Chat>>)

SelectModel(hint, p) ==
    LET requested == Raw(hint)
        own == SelectInSeq(PROFILES[p].models, LAMBDA m : Related(requested, m))
    IN IF requested \in {<<>>, Auto} THEN Labelled(p, <<Chat>>)
       ELSE IF own # 0 THEN PROFILES[p].models[own]
       ELSE IF MatchGlobal(requested) \in Models(p) THEN MatchGlobal(requested)
       ELSE Labelled(p, <<Code, Chat>>)

ResolveLabel(name, act) ==
    IF act # None /\ name \in DOMAIN PROFILES[act].labels THEN act
    ELSE SelectInSeq(PROFILES, LAMBDA profile : name \in DOMAIN profile.labels)

Route(hint, act) ==
    LET requested == Strip(hint)
        label == IF requested \in {<<>>, Auto} THEN None ELSE ResolveLabel(requested, act)
        p == IF label # None THEN label ELSE SelectProfile(hint, act)
    IN [profile |-> p,
        model |-> IF label # None THEN PROFILES[p].labels[requested] ELSE SelectModel(hint, p)]

-----------------------------------------------------------------------------
(* The requests.  What may go wrong with a swap or an inference is in the  *)
(* module Gateway; here every swap succeeds and every request is answered. *)

\* chat_completions routes the request and joins the queue of its profile.
Arrive(r, hint) ==
    /\ request[r] = NoRequest
    /\ LET decision == Route(hint, active) IN
       request' = [request EXCEPT ![r] =
           [hint |-> hint, profile |-> decision.profile, model |-> decision.model, at |-> active]]
    /\ waiting' = Append(waiting, r)
    /\ UNCHANGED <<PROFILES, active, swap>>

Admitted == {r \in Requests : request[r] # NoRequest} \ ToSet(waiting)

\* _promote: first come, first served, requests of one profile at a time.
Admit ==
    /\ waiting # <<>>
    /\ \A s \in Admitted : request[s].profile = request[Head(waiting)].profile
    /\ waiting' = Tail(waiting)
    /\ UNCHANGED <<PROFILES, active, swap, request>>

\* _chat_completions: the admitted request finds another profile active.
StartSwap(r) ==
    /\ r \in Admitted /\ swap = None /\ active # request[r].profile
    /\ swap' = request[r].profile
    /\ UNCHANGED <<PROFILES, active, request, waiting>>

\* The profile is claimed at the end of a swap and is the old one until then.
Claim ==
    /\ swap # None
    /\ active' = swap /\ swap' = None
    /\ UNCHANGED <<PROFILES, request, waiting>>

\* _dispatch_to_backend, and the release of the lease.
Serve(r) ==
    /\ r \in Admitted /\ swap = None /\ active = request[r].profile
    /\ request' = [request EXCEPT ![r] = NoRequest]
    /\ UNCHANGED <<PROFILES, active, swap, waiting>>

Next ==
    \/ \E r \in Requests :
           \/ \E hint \in [text : Texts, padded : BOOLEAN] : Arrive(r, hint)
           \/ StartSwap(r) \/ Serve(r)
    \/ Admit \/ Claim

Spec == Init /\ [][Next]_vars

-----------------------------------------------------------------------------
(* Properties *)

Routed == {r \in Requests : request[r] # NoRequest}

\* Every request is bound for a model of the profile it is queued under, blanks
\* around the name and partial names of other profiles' models included: it is
\* never proxied to a server that its own swap does not start.
ModelOfProfile == \A r \in Routed : request[r].model \in Models(request[r].profile)

\* The reference for the two loops: the profile at hand where nothing is asked
\* for or known; the profile of an exact name; else one with the longest related
\* name, and of several the first.
IsOwner(p, requested, act) ==
    LET Names == UNION {Models(q) : q \in Profiles}
        RelatedTo(q) == {Len(n) : n \in {m \in Models(q) : Related(requested, m)}}
    IN IF \/ requested \in {<<>>, Auto}
          \/ ~\E n \in Names : n = requested \/ Related(requested, n)
       THEN p = (IF act = None THEN 1 ELSE act)
       ELSE IF requested \in Names THEN requested \in Models(p)
       ELSE \E k \in RelatedTo(p) :
                /\ \A q \in 1..(p - 1) : \A j \in RelatedTo(q) : j < k
                /\ \A q \in Profiles : \A j \in RelatedTo(q) : j <= k

\* A request goes where its name belongs, and where nothing names a profile it
\* stays: it leaves the profile active at its arrival only for a label that one
\* lacks or for a name that belongs to another.
GoesToOwner ==
    \A r \in Routed :
        LET text == Strip(request[r].hint)
            Has(p) == text \in DOMAIN PROFILES[p].labels
        IN IF text \notin {<<>>, Auto} /\ \E p \in Profiles : Has(p)
           THEN /\ Has(request[r].profile)
                /\ request[r].at # None /\ Has(request[r].at) => request[r].profile = request[r].at
           ELSE IsOwner(request[r].profile, text, request[r].at)

\* "model='chat' should NOT trigger a swap": a swap in flight is one its request
\* would still ask for if it were routed now (or one out of no profile at all).
SwapIsWanted ==
    swap # None =>
        \E r \in Admitted :
            /\ request[r].profile = swap
            /\ request[r].at = None \/ Route(request[r].hint, active).profile = swap
=============================================================================
