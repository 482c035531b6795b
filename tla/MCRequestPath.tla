--------------------------- MODULE MCRequestPath ---------------------------
(***************************************************************************)
(* The parts a request passes through that share no state, each by itself: *)
(* `part` is chosen at the start and the others rest in a state they begin *)
(* in.                                                                     *)
(***************************************************************************)
EXTENDS Proxy, SequencesExt

CONSTANTS
    Requests, Drains, MAX_QUEUE_SIZE,
    Texts, NoText, MaxMessages, max_entries,
    Callers, Hints, Menus

VARIABLES
    part,
    queue, future, expired, batch, busy,
    cache, hit, recency,
    PROFILES, active, swap, request, waiting

Buffer == INSTANCE RequestBuffer
Prefix == INSTANCE PrefixCache
Router == INSTANCE Router
            WITH Requests <- Callers, Texts <- Hints, Catalogues <- Menus

ASSUME BufferSize == Buffer!BufferAssumption
ASSUME CacheSize == Prefix!CacheAssumption
ASSUME CataloguesAreRight == Router!CatalogueAssumption

bufferVars == <<queue, future, expired, batch, busy>>
prefixVars == <<cache, hit, recency>>
routerVars == <<PROFILES, active, swap, request, waiting>>
MCvars == <<part, vars, bufferVars, prefixVars, routerVars>>

AnyCatalogue == CHOOSE c \in Menus : TRUE

MCInit ==
    /\ part \in {"proxy", "buffer", "prefix", "router"}
    /\ Init /\ Buffer!Init /\ Prefix!Init
    /\ part # "proxy" => backend = "down"
    /\ Router!Init
    /\ part # "router" => PROFILES = AnyCatalogue /\ active = 0

MCNext ==
    /\ \/ part = "proxy" /\ Next /\ UNCHANGED <<bufferVars, prefixVars, routerVars>>
       \/ part = "buffer" /\ Buffer!Next /\ UNCHANGED <<vars, prefixVars, routerVars>>
       \/ part = "prefix" /\ Prefix!Next /\ UNCHANGED <<vars, bufferVars, routerVars>>
       \/ part = "router" /\ Router!Next /\ UNCHANGED <<vars, bufferVars, prefixVars>>
    /\ UNCHANGED part

MCSpec == MCInit /\ [][MCNext]_MCvars

-----------------------------------------------------------------------------
(* What a cfg may give the router: the shipped catalogue, or every one of two
   profiles over names that contain one another; and what clients ask for. *)

\* No labels, chat on the first model, or chat on the last and code on the first.
ProfilesOf(models) ==
    {[models |-> models, labels |-> <<>>],
     [models |-> models, labels |-> [l \in {<<"chat">>} |-> Head(models)]],
     [models |-> models, labels |-> [l \in {<<"chat">>, <<"code">>} |->
                                        IF l = <<"chat">> THEN Last(models) ELSE Head(models)]]}

NestedNames == {<<"a">>, <<"b">>, <<"a", "b">>, <<"a", "b", "a">>, <<"b", "a", "b">>}
ModelLists == {s \in UNION {[1..n -> NestedNames] : n \in 1..2} : IsInjective(s)}

Nested ==
    {c \in [1..2 -> UNION {ProfilesOf(s) : s \in ModelLists}] :
        ToSet(c[1].models) \cap ToSet(c[2].models) = {}}

NestedTexts ==
    {<<>>, <<"auto">>, <<"chat">>, <<"code">>, <<"a">>, <<"b">>, <<"a", "a">>, <<"a", "b">>,
     <<"b", "a">>, <<"a", "b", "a">>}

ShippedProfile(name) ==
    [models |-> <<name>>, labels |-> [l \in {<<"chat">>, <<"code">>} |-> name]]

Shipped ==
    {<<ShippedProfile(<<"deepseek", "v4", "flash">>), ShippedProfile(<<"qwen", "3.5", "122b">>),
       ShippedProfile(<<"qwen", "3.8", "flash", "next">>)>>}

ShippedTexts ==
    {<<"chat">>, <<"qwen">>, <<"deepseek", "v4", "flash">>, <<"qwen", "3.5", "122b">>}

-----------------------------------------------------------------------------
(* Properties *)

\* Whoever still waits in the request buffer is in it or in exactly one drain,
\* whatever expired, failed or was drained beside it.
NobodyForgotten == Buffer!NobodyForgotten

\* The prefix cache is the last max_entries distinct prefixes, in order of use.
CacheIsLRU == Prefix!CacheIsLRU

\* A request is bound for a model of its profile, and for the profile the
\* reference definition of ownership names.
RoutesRight == Router!ModelOfProfile /\ Router!GoesToOwner

\* Every swap in flight is one that its request, routed now, would ask for.
SwapIsWanted == Router!SwapIsWanted
=============================================================================
