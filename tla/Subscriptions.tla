--------------------------- MODULE Subscriptions ---------------------------
(***************************************************************************)
(* Which resources of the server are polled, and how often: the server's   *)
(* tree changes, polls bring what they find to the scheduler, its model    *)
(* says what else is to be polled or no longer, and the connection task    *)
(* keeps the table of polls.                                               *)
(*                                                                         *)
(* That channels may be full is the subject of BridgeChannels; here what   *)
(* one poll brings arrives in order, and what different polls bring in any *)
(* order, since every callback waits for room on its own.  All of that is  *)
(* lost with a crash, and so are the polls; the model is read from disk.   *)
(***************************************************************************)
EXTENDS ResourceLinks

CONSTANTS
  Trees,         \* what the server serves, one tree of resources after the other:
                 \* sequences of resources, each after those that link it
  Root,          \* the href of the DeviceCapability
  DefaultRate,   \* --default-poll-rate
  MaxCrashes,    \* bounds, for TLC
  MaxFailures

ASSUME SubscriptionsAssumption ==
  /\ Trees \in Seq(Seq(Resources)) /\ Trees # <<>>
  /\ \A t \in DOMAIN Trees : \E doc \in Range(Trees[t]) :
       doc.kind = "DeviceCapability" /\ doc.href = Root
  /\ DefaultRate \in Nat /\ MaxCrashes \in Nat /\ MaxFailures \in Nat

(* Every resource there ever is. *)
Docs == UNION {Range(Trees[t]) : t \in DOMAIN Trees}

(* What a resource links. *)
Linked(doc) == UNION {Range(doc.items[i].links) : i \in DOMAIN doc.items}

(* Where there is ever a resource, or a link to one. *)
Hrefs == UNION {{doc.href} \cup {link.href : link \in Linked(doc)} : doc \in Docs}

-----------------------------------------------------------------------------
(* What a server keeps to, without which the table of polls could not be   *)
(* right (IEEE 2030.5 gives a resource one href for its life).             *)

(* The hrefs that a resource names, with the kind of what is there. *)
NamedBy(doc) ==
  {[kind |-> doc.kind, href |-> doc.href]} \cup Linked(doc)
    \cup {[kind |-> ItemKind(doc.kind), href |-> doc.items[i].href] :
            i \in {n \in DOMAIN doc.items : doc.kind \in ListKinds}}

Names(trees) == UNION {NamedBy(doc) : doc \in UNION {Range(trees[t]) : t \in DOMAIN trees}}

(* An href is always of one kind. *)
KindsStay(trees) == \A a, b \in Names(trees) : a.href = b.href => a.kind = b.kind

(* There is one MirrorUsagePointList, which stays where it is. *)
MirrorsStay(trees) ==
  \A a, b \in Names(trees) :
    a.kind = "MirrorUsagePointList" /\ b.kind = a.kind => a.href = b.href

-----------------------------------------------------------------------------
VARIABLES
  server,    \* which of the trees is served
  model,     \* the scheduler's, which is also what it has persisted
  refresh,   \* main's RefreshActiveResources is on its way
  results,   \* what GETs of each href brought, on its way to the scheduler
  requests,  \* the link events, on their way to the connection task
  polls,     \* established_polls, and the poll of the DeviceCapability
  used

vars == <<server, model, refresh, results, requests, polls, used>>

Served == Range(Trees[server])

NoResults == [href \in Hrefs |-> <<>>]

(* The DeviceCapability is fetched at start and polled from then on, at a  *)
(* rate of its own that nothing changes.                                   *)
RootPoll == [href \in {Root} |-> [kind |-> "DeviceCapability", rate |-> DefaultRate]]

Init ==
  /\ server = 1
  /\ model = EmptyModel
  /\ refresh = TRUE
  /\ results = NoResults /\ requests = <<>>
  /\ polls = RootPoll
  /\ used = [crashes |-> 0, failures |-> 0]

-----------------------------------------------------------------------------

ServerChanges ==
  /\ server < Len(Trees)
  /\ server' = server + 1
  /\ UNCHANGED <<model, refresh, results, requests, polls, used>>

(* A GET of a resource of a kind: it may be there or not. *)
Found(href, kind) == {doc \in Served : doc.href = href /\ doc.kind = kind}

Arrives(doc) == results' = [results EXCEPT ![doc.href] = Append(@, doc)]

(* make_poll_callback.  What is there no more brings nothing.  The time     *)
(* between two polls is long: what the last one brought has been taken.     *)
PollBrings(href) ==
  /\ href \in DOMAIN polls
  /\ results[href] = <<>>
  /\ \E doc \in Found(href, polls[href].kind) : Arrives(doc)
  /\ UNCHANGED <<server, model, refresh, requests, polls, used>>

ResultTaken(href) ==
  /\ results[href] # <<>>
  /\ results' = [results EXCEPT ![href] = Tail(@)]

(* ResourceUpdated, by whichever poll it came, and whether or not that poll *)
(* still exists.                                                            *)
TakeResult(href) ==
  /\ ResultTaken(href)
  /\ model' = Applied(model, Head(results[href]))
  /\ requests' = requests \o UpdateEvents(model, Head(results[href]))
  /\ UNCHANGED <<server, refresh, polls, used>>

Refreshed == refresh /\ refresh' = FALSE

(* RefreshActiveResources. *)
TakeRefresh ==
  /\ Refreshed
  /\ requests' = requests \o RefreshEvents(model)
  /\ UNCHANGED <<server, model, results, polls, used>>

-----------------------------------------------------------------------------
(* The table of polls. *)

(* start_poll_for: these are fetched as parts of their list. *)
NotPolled ==
  {"EndDevice", "FunctionSetAssignments", "DERProgram", "DERControl", "DERCurve"}

Rate(request) == IF request.rate = NoRate THEN DefaultRate ELSE request.rate

Mutant_Obeyed_polls_all(table, request) ==
  IF request.type = "LinkRemoved" THEN Restrict(table, DOMAIN table \ {request.href})
  ELSE IF request.href \in DOMAIN table THEN [table EXCEPT ![request.href].rate = Rate(request)]
  ELSE Inserted(table, request.href, [kind |-> request.kind, rate |-> Rate(request)])

(* A poll that exists keeps its kind. *)
Obeyed(table, request) ==
  IF request.type = "LinkRemoved" THEN Restrict(table, DOMAIN table \ {request.href})
  ELSE IF request.href \in DOMAIN table THEN [table EXCEPT ![request.href].rate = Rate(request)]
  ELSE IF request.kind \in NotPolled THEN table
  ELSE Inserted(table, request.href, [kind |-> request.kind, rate |-> Rate(request)])

(* Whether a request has the resource fetched before it is polled. *)
Fetches(request) ==
  /\ request.type = "LinkAddedOrUpdated"
  /\ request.href \notin DOMAIN polls
  /\ request.kind \notin NotPolled

(* SubscribeToResource and UnsubscribeFromResource. *)
TakeRequest ==
  /\ requests # <<>>
  /\ requests' = Tail(requests)
  /\ polls' = Obeyed(polls, Head(requests))
  /\ UNCHANGED <<server, model, refresh>>
  /\ LET request == Head(requests)
         found == Found(request.href, request.kind)
     IN IF ~ Fetches(request) THEN UNCHANGED <<results, used>>
        ELSE \/ (\E doc \in found : Arrives(doc)) /\ UNCHANGED used
             \/ found = {} /\ UNCHANGED <<results, used>>
             \/ /\ used.failures < MaxFailures
                /\ used' = [used EXCEPT !.failures = @ + 1]
                /\ UNCHANGED results

(* The process starts again: only what the scheduler persisted is left. *)
CrashAndRestart ==
  /\ used.crashes < MaxCrashes
  /\ used' = [used EXCEPT !.crashes = @ + 1]
  /\ refresh' = TRUE
  /\ results' = NoResults /\ requests' = <<>> /\ polls' = RootPoll
  /\ UNCHANGED <<server, model>>

Next ==
  \/ ServerChanges \/ TakeRefresh \/ TakeRequest \/ CrashAndRestart
  \/ \E href \in Hrefs : PollBrings(href) \/ TakeResult(href)

Spec == Init /\ [][Next]_vars

(* The tasks go on, and every poll that exists is answered again and again. *)
(* What is taken is named by what it is taken from, which is all that TLC   *)
(* need look at to see that it was.                                         *)
Fairness ==
  /\ WF_refresh(Refreshed) /\ WF_vars(TakeRequest)
  /\ \A href \in Hrefs : WF_vars(PollBrings(href)) /\ WF_results(ResultTaken(href))

FairSpec == Spec /\ Fairness

-----------------------------------------------------------------------------
(* Properties. *)

(* Where the server names a resource of a kind. *)
Named(kind, href) == [kind |-> kind, href |-> href] \in Names(Trees)

ItemKinds == {ItemKind(kind) : kind \in ListKinds}

Kinds == LinkedKinds \cup ItemKinds

(* What the model holds: links, lists and items of the kinds that the      *)
(* server has at their hrefs.                                              *)
LinkT == {link \in [kind : LinkedKinds, href : Nat \ {0}] : Named(link.kind, link.href)}

ItemT(kind) == {item \in [href : Nat \ {0}, links : Seq(LinkT)] : Named(kind, item.href)}

ListT == [rate : PollRates, ids : Seq(STRING)]

(* The lists that there is one of. *)
OneOK(list, kind) ==
  /\ list \in [href : Nat, rate : PollRates, ids : Seq(STRING)]
  /\ list # NoList => list.href # 0 /\ Named(kind, list.href)

ListsOK(lists) ==
  /\ lists = [key \in DOMAIN lists |-> lists[key]]
  /\ \A key \in DOMAIN lists : key \in LinkedKinds \X Nat /\ lists[key] \in ListT

ItemsOK(items) ==
  /\ items = [key \in DOMAIN items |-> items[key]]
  /\ \A key \in DOMAIN items : key \in ItemKinds \X STRING /\ items[key] \in ItemT(key[1])

ModelOK(m) ==
  /\ m = [dcap |-> m.dcap, time |-> m.time, edl |-> m.edl, mupl |-> m.mupl,
          lists |-> m.lists, items |-> m.items]
  /\ m.dcap \in Seq(LinkT)
  /\ m.time \in PollRates
  /\ OneOK(m.edl, "EndDeviceList")
  /\ OneOK(m.mupl, "MirrorUsagePointList")
  /\ ListsOK(m.lists)
  /\ ItemsOK(m.items)

(* What is asked of the connection task, never about the DeviceCapability. *)
Others == Nat \ {0, Root}

RequestT ==
  [type : {"LinkRemoved"}, href : Others]
    \cup {r \in [type : {"LinkAddedOrUpdated"}, href : Others, kind : Kinds, rate : PollRates] :
            Named(r.kind, r.href)}

PollsOK(table) ==
  /\ table = [href \in DOMAIN table |-> table[href]]
  /\ Root \in DOMAIN table
  /\ \A href \in DOMAIN table :
       /\ table[href] = [kind |-> table[href].kind, rate |-> table[href].rate]
       /\ table[href].kind \notin NotPolled /\ Named(table[href].kind, href)
       /\ table[href].rate \in Nat

(* Every value has its type: what is polled, asked for and kept is of the  *)
(* kind the server has there, and no poll of a kind that is not polled.    *)
TypeOK ==
  /\ server \in DOMAIN Trees
  /\ refresh \in BOOLEAN
  /\ used \in [crashes : 0 .. MaxCrashes, failures : 0 .. MaxFailures]
  /\ results \in [Hrefs -> Seq(Docs)]
  /\ requests \in Seq(RequestT)
  /\ PollsOK(polls)
  /\ ModelOK(model)

(* What a table has of an href: nothing or one entry. *)
At(table, href) == {table[h] : h \in DOMAIN table \cap {href}}

(* The poll that links ask for at an href, if any. *)
Asked(links, href) ==
  {[kind |-> link.kind, rate |-> Rate(link)] :
     link \in {l \in At(links, href) : l.kind \notin NotPolled}}

ToCome(href) == {i \in DOMAIN requests : requests[i].href = href}

(* The poll at an href is the one that links ask for, or will be when the  *)
(* last request about it is obeyed.                                        *)
Follows(href, links) ==
  IF ToCome(href) = {}
  THEN At(polls, href) = Asked(links, href)
  ELSE requests[Max(ToCome(href))] =
         IF href \in DOMAIN links THEN AddedOrUpdated(href, links[href]) ELSE Removed(href)

(* The scheduler sends only differences, and the connection task never     *)
(* tells what it polls: still, once what is on its way is done, exactly    *)
(* the linked resources are polled, at the rate and as the kind they are   *)
(* linked (resource_link_events, SubscribeToResource).                     *)
TableFollowsModel ==
  LET links == Links(model)
  IN ~refresh => \A href \in Hrefs \ {Root} : Follows(href, links)

(* The links that decide what is dropped are those of the model before it  *)
(* is dropped: nothing that is left has lost its link with it, and nothing *)
(* that is linked is lost (drop_untracked_resources).                      *)
DropsInOnePass ==
  /\ Drop(model, Links(model)) = model
  /\ \A href \in Hrefs : \A i \in DOMAIN results[href] :
       LET set == Set(model, results[href][i]) IN Links(Drop(set, Links(set))) = Links(set)

(* What the served tree asks for: to poll what its resources link, at the  *)
(* rate a resource gives itself or, below a DERProgramList, at that list's. *)
Wanted ==
  LET by(href) == CHOOSE doc \in Served : \E link \in Linked(doc) : link.href = href
      Rates(href) == {doc.rate : doc \in IF by(href).kind = "DERProgramList" THEN {by(href)}
                                         ELSE {d \in Served : d.href = href}}
  IN [link \in UNION {Linked(doc) : doc \in Served} |->
        [kind |-> link.kind,
         rate |-> CHOOSE rate \in Rates(link.href) : TRUE]]

(* Whatever the polls of resources that are gone still bring, after the    *)
(* last change of the server's tree its resources, and no others, come to  *)
(* be polled as they ask, and stay so, through crashes and failed GETs.    *)
Converges ==
  <>[](polls = [href \in {link.href : link \in DOMAIN Wanted} |->
                  LET link == CHOOSE l \in DOMAIN Wanted : l.href = href
                  IN [kind |-> link.kind, rate |-> Rate(Wanted[link])]] @@ RootPoll)

(* sep2_connection.rs:256 "The scheduler always sends the poll rate that   *)
(* applies to the resource, where None means the default applies": when    *)
(* nothing is on its way, the MirrorUsagePointList is polled at the rate   *)
(* it gives itself.                                                        *)
RatesApply ==
  (~refresh /\ requests = <<>> /\ model.mupl.href \in DOMAIN polls)
    => polls[model.mupl.href].rate = Rate(model.mupl)

=============================================================================
