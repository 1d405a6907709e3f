--------------------------- MODULE DatasetFlowRuns ---------------------------
(***************************************************************************)
(* The GraphQL queries over a dataset's flow runs (DatasetFlowRuns in      *)
(* src/src/adapter/graphql/src/queries/datasets/dataset_flow_runs.rs):     *)
(* get_flow and list_flows, one request at a time, each await a step.     *)
(*                                                                         *)
(* list_flows takes page and per_page as Option<usize> from the client,   *)
(* asks the flow service for FlowPaginationOpts { offset: page * per_page, *)
(* limit: per_page } and returns a FlowConnection labelled with page and  *)
(* per_page.  usize arithmetic is modelled at a width of UsizeBits bits:  *)
(* a build with overflow checks panics on an overflowing product, one     *)
(* without them wraps it modulo 2^UsizeBits.                              *)
(*                                                                         *)
(* The flow service, the access checks and the account lookup are not    *)
(* under src/: each answers with any of its outcomes.  The dataset's flows *)
(* matching the filters are the positions 1..NumFlows of the service's    *)
(* ordering; a page is the positions offset + 1 .. offset + limit.        *)
(***************************************************************************)
EXTENDS Integers, Sequences

CONSTANTS
    UsizeBits,      \* width of usize in this model
    NumFlows,       \* flows of the dataset matching the filters
    Accounts,       \* account names a by_initiator filter may give
    KnownAccounts,  \* those find_account_id_by_name resolves
    NONE            \* Option::None

ASSUME UsizeBits \in Nat \ {0} /\ NumFlows \in Nat /\ KnownAccounts \subseteq Accounts

VARIABLES
    req,        \* the request being served
    pc,         \* the await the handler is at, or "done"
    opts,       \* the FlowPaginationOpts passed to the flow service, or NONE
    result      \* what the query returned, or NONE while it runs

vars == <<req, pc, opts, result>>

-----------------------------------------------------------------------------
(* Values *)

Usize == 0..(2^UsizeBits - 1)

\* DatasetFlowRuns::DEFAULT_PER_PAGE, within the modelled width
DEFAULT_PER_PAGE == 15

\* by_initiator: none, System, or Account(name)
Initiators == [kind : {"None", "System"}] \cup [kind : {"Account"}, account : Accounts]

Requests ==
    [query : {"get_flow"}, belongs : BOOLEAN]
    \cup [query : {"list_flows"}, page : Usize \cup {NONE},
          perPage : Usize \cup {NONE}, initiator : Initiators]

\* GetFlowResult, the GqlError variants (utils.rs) and a panic: the ways a
\* query ends other than with a FlowConnection
Ends(kinds) == [kind : kinds]

IsConnection(r) == r # NONE /\ r.kind = "conn"

\* by_initiator needs no lookup, or names an account the lookup finds
Resolvable(i) == i.kind = "Account" => i.account \in KnownAccounts

UnwrapOr(x, d) == IF x = NONE THEN d ELSE x

\* page * per_page in a build with overflow checks: None when it overflows
CheckedMul(a, b) == IF a * b < 2^UsizeBits THEN a * b ELSE NONE

\* the same product in a build without them
WrappingMul(a, b) == (a * b) % 2^UsizeBits

\* list_all_flows_by_dataset: the matched flows at the requested offsets
Listing(o) ==
    LET first == o.offset + 1
        last  == IF o.offset + o.limit < NumFlows THEN o.offset + o.limit ELSE NumFlows
    IN [i \in 1..(last - first + 1) |-> first + i - 1]

-----------------------------------------------------------------------------

Init ==
    /\ req \in Requests
    /\ pc = "access"
    /\ opts = NONE
    /\ result = NONE

\* utils::check_dataset_read_access: a denied or failed check ends the query.
CheckAccess ==
    /\ pc = "access"
    /\ \/ /\ pc' = IF req.query = "get_flow" THEN "belongs" ELSE "filters"
          /\ UNCHANGED result
       \/ /\ pc' = "done"
          /\ result' \in Ends({"Gql", "Internal"})
    /\ UNCHANGED <<req, opts>>

\* get_flow: check_if_flow_belongs_to_dataset, then flow_service.get_flow.
GetFlow ==
    /\ pc = "belongs"
    /\ pc' = "done"
    /\ \/ ~req.belongs /\ result' = [kind |-> "NotFound"]
       \/ req.belongs /\ result' \in Ends({"Success", "Internal"})
       \/ result' = [kind |-> "Internal"]
    /\ UNCHANGED <<req, opts>>

\* list_flows: the filters; an Account initiator is looked up, and an
\* unknown name ends the query with "Account not resolved".
ResolveFilters ==
    /\ pc = "filters"
    /\ \/ /\ Resolvable(req.initiator)
          /\ pc' = "list"
          /\ UNCHANGED result
       \/ /\ req.initiator.kind = "Account"
          /\ pc' = "done"
          /\ \/ result' = [kind |-> "Internal"]
             \/ ~Resolvable(req.initiator) /\ result' = [kind |-> "Gql"]
    /\ UNCHANGED <<req, opts>>

\* The call to list_all_flows_by_dataset with offset page * per_page.
ListFlows ==
    /\ pc = "list"
    /\ LET page == UnwrapOr(req.page, 0)
           perPage == UnwrapOr(req.perPage, DEFAULT_PER_PAGE)
       IN \/ /\ CheckedMul(page, perPage) = NONE
             /\ pc' = "done" /\ result' = [kind |-> "panic"] /\ UNCHANGED opts
          \/ /\ opts' = [offset |-> WrappingMul(page, perPage), limit |-> perPage]
             /\ pc' = "collect"
             /\ UNCHANGED result
    /\ UNCHANGED req

\* The listing (or its error), the collected stream (or its error) and
\* FlowConnection::new(matched_flows, page, per_page, total_count).
Collect ==
    /\ pc = "collect"
    /\ pc' = "done"
    /\ \/ result' = [kind |-> "Internal"]
       \/ result' = [kind |-> "conn", nodes |-> Listing(opts), page |-> UnwrapOr(req.page, 0),
                      perPage |-> opts.limit, total |-> NumFlows]
    /\ UNCHANGED <<req, opts>>

Next == CheckAccess \/ GetFlow \/ ResolveFilters \/ ListFlows \/ Collect

Spec == Init /\ [][Next]_vars

-----------------------------------------------------------------------------
(* Properties *)

\* A FlowConnection labelled page p of size n holds the flows at positions
\* p * n + 1 .. p * n + n of the listing (none when the listing is shorter):
\* the label list_flows gives the connection agrees with the offset it
\* asked the flow service for.  page and per_page come from the client and
\* their product is computed in usize.
PageMatchesRequest ==
    IsConnection(result) =>
        \A i \in 1..NumFlows :
            (\E k \in 1..Len(result.nodes) : result.nodes[k] = i)
                <=> (result.page * result.perPage < i
                     /\ i <= result.page * result.perPage + result.perPage)

====
