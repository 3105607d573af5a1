--------------------------- MODULE ResourceLinks ---------------------------
(***************************************************************************)
(* What the scheduler's model knows of the tree of resources, which links  *)
(* follow from it, and how a new resource changes both                     *)
(* (scheduler/sep2_model.rs).                                              *)
(*                                                                         *)
(* A resource is [kind, href, rate, items], an item [id, href, links] with *)
(* links a sequence of [kind, href]; what else a resource says is left     *)
(* out.  Hrefs are numbers: a BTreeMap is walked in their order.           *)
(***************************************************************************)
EXTENDS Naturals, SequencesExt

CONSTANTS NoRate

(* What the server gives an href and a rate: lists, whose items are        *)
(* fetched with them, and other resources.                                 *)
ListKinds ==
  {"EndDeviceList", "FunctionSetAssignmentsList", "DERProgramList", "DERControlList",
   "DERCurveList"}

LinkedKinds == ListKinds \cup {"Time", "MirrorUsagePointList", "DERList", "DefaultDERControl"}

PollRates == Nat \cup {NoRate}

Resources ==
  LET Link == [kind : LinkedKinds, href : Nat \ {0}]
      Item == [id : STRING, href : Nat \ {0}, links : Seq(Link)]
  IN {doc \in [kind : LinkedKinds \cup {"DeviceCapability"}, href : Nat \ {0},
               rate : PollRates, items : Seq(Item)] :
        /\ doc.kind = "DeviceCapability" => Len(doc.items) = 1
        /\ doc.kind \notin ListKinds \cup {"DeviceCapability"} => doc.items = <<>>}

(* Start with an href that no resource has. *)
NoList == [href |-> 0, rate |-> NoRate, ids |-> <<>>]

(* Sep2Model.  Time and the two lists there is one of are kept by          *)
(* themselves; lists are by kind and href, items by kind and id.           *)
EmptyModel ==
  [dcap |-> <<>>, time |-> NoRate, edl |-> NoList, mupl |-> NoList,
   lists |-> <<>>, items |-> <<>>]

ItemKind(kind) ==
  CASE kind = "EndDeviceList" -> "EndDevice"
    [] kind = "FunctionSetAssignmentsList" -> "FunctionSetAssignments"
    [] kind = "DERProgramList" -> "DERProgram"
    [] kind = "DERControlList" -> "DERControl"
    [] kind = "DERCurveList" -> "DERCurve"

-----------------------------------------------------------------------------
(* Applying a resource. *)

(* HashMap's insert. *)
Inserted(map, key, value) == [k \in DOMAIN map \cup {key} |-> IF k = key THEN value ELSE map[k]]

Ids(doc) == [i \in DOMAIN doc.items |-> doc.items[i].id]

WithItems(items, doc) ==
  LET Key(i) == <<ItemKind(doc.kind), doc.items[i].id>>
      Said(key) == {i \in DOMAIN doc.items : Key(i) = key}
  IN [key \in DOMAIN items \cup {Key(i) : i \in DOMAIN doc.items} |->
        IF Said(key) = {} THEN items[key]
        ELSE [href |-> doc.items[Max(Said(key))].href, links |-> doc.items[Max(Said(key))].links]]

(* The rate of what is below a DERProgramList is decided by that list. *)
KeptRate(doc) ==
  IF doc.kind \in {"DERControlList", "DERCurveList", "DefaultDERControl"} THEN NoRate ELSE doc.rate

(* The set_ function of each kind. *)
Set(model, doc) ==
  CASE doc.kind = "DeviceCapability" -> [model EXCEPT !.dcap = doc.items[1].links]
    [] doc.kind = "Time" -> [model EXCEPT !.time = doc.rate]
    [] doc.kind = "MirrorUsagePointList" ->
         [model EXCEPT !.mupl = [href |-> doc.href, rate |-> doc.rate, ids |-> <<>>]]
    [] doc.kind = "EndDeviceList" ->
         [model EXCEPT !.edl = [href |-> doc.href, rate |-> doc.rate, ids |-> Ids(doc)],
                       !.items = WithItems(@, doc)]
    [] OTHER ->
         [model EXCEPT !.lists = Inserted(@, <<doc.kind, doc.href>>,
                                          [rate |-> KeptRate(doc), ids |-> Ids(doc)]),
                       !.items = WithItems(@, doc)]

-----------------------------------------------------------------------------
(* resource_links: every link in the order it is found.  Links keeps, of   *)
(* those to the same href, the last.                                       *)

ResourceLink(href, kind, rate) == <<[href |-> href, kind |-> kind, rate |-> rate]>>

LinksOf(links, kind) ==
  FlattenSeq([i \in DOMAIN links |-> IF links[i].kind = kind THEN <<links[i]>> ELSE <<>>])

List(model, kind, href) ==
  IF <<kind, href>> \in DOMAIN model.lists THEN model.lists[<<kind, href>>]
  ELSE [rate |-> NoRate, ids |-> <<>>]

(* What is known of the items of a list. *)
ListItems(model, kind, ids) ==
  FlattenSeq([i \in DOMAIN ids |->
                LET key == <<ItemKind(kind), ids[i]>>
                IN IF key \in DOMAIN model.items THEN <<model.items[key]>> ELSE <<>>])

(* list_links, with the links below each item. *)
ListLinks(href, kind, rate, items, below) ==
  ResourceLink(href, kind, rate)
    \o FlattenSeq([i \in DOMAIN items |->
                     ResourceLink(items[i].href, ItemKind(kind), rate) \o below[i]])

(* Links that are followed no further. *)
LeafLinks(links, rate) ==
  FlattenSeq([i \in DOMAIN links |-> ResourceLink(links[i].href, links[i].kind, rate)])

(* Controls and curves link nothing further. *)
LeafListLinks(model, rate, link) ==
  LET items == ListItems(model, link.kind, List(model, link.kind, link.href).ids)
  IN ListLinks(link.href, link.kind, rate, items, [i \in DOMAIN items |-> <<>>])

LeafListsLinks(model, rate, links) ==
  FlattenSeq([i \in DOMAIN links |-> LeafListLinks(model, rate, links[i])])

DERProgramLinks(model, rate, program) ==
  LeafLinks(LinksOf(program.links, "DefaultDERControl"), rate)
    \o LeafListsLinks(model, rate, LinksOf(program.links, "DERControlList"))
    \o LeafListsLinks(model, rate, LinksOf(program.links, "DERCurveList"))

DERProgramListLinks(model, link) ==
  LET list == List(model, link.kind, link.href)
      items == ListItems(model, link.kind, list.ids)
  IN ListLinks(link.href, link.kind, list.rate, items,
               [i \in DOMAIN items |-> DERProgramLinks(model, list.rate, items[i])])

FunctionSetAssignmentsLinks(model, assignments) ==
  LET links == LinksOf(assignments.links, "DERProgramList")
  IN FlattenSeq([i \in DOMAIN links |-> DERProgramListLinks(model, links[i])])

FunctionSetAssignmentsListLinks(model, link) ==
  LET list == List(model, link.kind, link.href)
      items == ListItems(model, link.kind, list.ids)
  IN ListLinks(link.href, link.kind, list.rate, items,
               [i \in DOMAIN items |-> FunctionSetAssignmentsLinks(model, items[i])])

(* Those of each, at the rate that its DERList gives itself. *)
DERListLinks(model, link) ==
  ResourceLink(link.href, link.kind, List(model, link.kind, link.href).rate)

EndDeviceLinks(model, device) ==
  LET assignments == LinksOf(device.links, "FunctionSetAssignmentsList")
      ders == LinksOf(device.links, "DERList")
  IN FlattenSeq([i \in DOMAIN assignments |->
                   FunctionSetAssignmentsListLinks(model, assignments[i])])
       \o FlattenSeq([i \in DOMAIN ders |-> DERListLinks(model, ders[i])])

EndDeviceListLinks(model) ==
  LET items == ListItems(model, "EndDeviceList", model.edl.ids)
  IN IF model.edl = NoList THEN <<>>
     ELSE ListLinks(model.edl.href, "EndDeviceList", model.edl.rate, items,
                    [i \in DOMAIN items |-> EndDeviceLinks(model, items[i])])

(* The DeviceCapability knows where, the resources themselves how often. *)
DcapLinks(model) ==
  LeafLinks(LinksOf(model.dcap, "Time"), model.time)
    \o LeafLinks(LinksOf(model.dcap, "EndDeviceList"), model.edl.rate)
    \o LeafLinks(LinksOf(model.dcap, "MirrorUsagePointList"), model.mupl.rate)

AllLinks(model) == DcapLinks(model) \o EndDeviceListLinks(model)

Links(model) ==
  LET links == AllLinks(model)
      Latest(href) == Max({i \in DOMAIN links : links[i].href = href})
  IN [href \in {links[i].href : i \in DOMAIN links} |->
        [kind |-> links[Latest(href)].kind, rate |-> links[Latest(href)].rate]]

NoLinks == <<>>

(* drop_untracked_resources.  The EndDeviceList and the Time stay. *)
Drop(model, links) ==
  [model EXCEPT
     !.lists = Restrict(@, {key \in DOMAIN @ : key[2] \in DOMAIN links}),
     !.mupl = IF @.href \in DOMAIN links THEN @ ELSE NoList,
     !.items = Restrict(@, {key \in DOMAIN @ : @[key].href \in DOMAIN links})]

-----------------------------------------------------------------------------
(* resource_link_events: removals first. *)

Removed(href) == [type |-> "LinkRemoved", href |-> href]

AddedOrUpdated(href, link) ==
  [type |-> "LinkAddedOrUpdated", href |-> href, kind |-> link.kind, rate |-> link.rate]

Mutant_Changed_only_added(prior, post) == DOMAIN post \ DOMAIN prior

Changed(prior, post) ==
  {href \in DOMAIN post : href \notin DOMAIN prior \/ prior[href] # post[href]}

InOrder(hrefs) ==
  FlattenSeq([n \in 1 .. Max(hrefs \cup {0}) |-> IF n \in hrefs THEN <<n>> ELSE <<>>])

LinkEvents(prior, post) ==
  LET removed == InOrder(DOMAIN prior \ DOMAIN post)
      changed == InOrder(Changed(prior, post))
  IN [i \in DOMAIN removed |-> Removed(removed[i])]
       \o [i \in DOMAIN changed |-> AddedOrUpdated(changed[i], post[changed[i]])]

Mutant_Applied_drops_first(model, doc) == Set(Drop(model, Links(model)), doc)

(* apply_update. *)
Applied(model, doc) == LET set == Set(model, doc) IN Drop(set, Links(set))

UpdateEvents(model, doc) == LinkEvents(Links(model), Links(Set(model, doc)))

Mutant_RefreshEvents_none(model) == <<>>

(* refresh_known_links. *)
RefreshEvents(model) == LinkEvents(NoLinks, Links(model))

=============================================================================
