----------------------------- MODULE Advertising ----------------------------
(***************************************************************************)
(* Campaigns and placements (commerce-api handlers/advertising.go).  A     *)
(* placement locks its campaign, compares the committed spend with the     *)
(* budget and inserts under an exclusion constraint; a status change reads *)
(* the status and writes the new one by id only.                           *)
(***************************************************************************)
EXTENDS Integers, FiniteSets, FiniteSetsExt

CONSTANTS
  Campaigns, Slots,
  Budgets, Costs,     \* what campaigns and placements carry
  AdWindows,          \* the windows placements ask for
  Bookers,            \* concurrent requests
  MaxPlacements,      \* bound on the placements
  NotBooking

ASSUME AdvertisingAssumption ==
  /\ Budgets \union Costs \subseteq Nat
  /\ AdWindows \subseteq [from : Nat, to : Nat]

VARIABLES
  campaigns,    \* commerce.ad_campaigns
  slots,        \* commerce.ad_inventory: the active slots
  placements,   \* commerce.ad_placements
  booker        \* the transaction or the checked status every request holds

adVars == <<campaigns, slots, placements, booker>>

campaignStatusTransitions ==
  [draft  |-> {"draft", "active", "ended"},
   active |-> {"active", "paused", "ended"},
   paused |-> {"paused", "active", "ended"},
   ended  |-> {"ended"}]
CampaignStatuses == DOMAIN campaignStatusTransitions
NoCampaign == [status |-> "none", budget |-> 0]

Placement == [id : 1..MaxPlacements, campaign : Campaigns, slot : Slots,
              window : AdWindows, cost : Costs]

AdvertisingTypeOK ==
  /\ campaigns \in [Campaigns -> {NoCampaign} \union [status : CampaignStatuses, budget : Budgets]]
  /\ slots \subseteq Slots
  /\ placements \subseteq Placement
  /\ booker \in [Bookers -> {NotBooking}
       \union [pc : {"status"}, campaign : Campaigns, target : CampaignStatuses]
       \union [pc : {"place"}, campaign : Campaigns, slot : Slots, window : AdWindows, cost : Costs]]

AdvertisingInit ==
  /\ campaigns = [c \in Campaigns |-> NoCampaign]
  /\ slots = {}
  /\ placements = {}
  /\ booker = [w \in Bookers |-> NotBooking]

Books(w, pc) == booker[w] # NotBooking /\ booker[w].pc = pc
Begins(w, request) == booker[w] = NotBooking /\ booker' = [booker EXCEPT ![w] = request]
Ends(w) == booker' = [booker EXCEPT ![w] = NotBooking]

NeverLocked(c) == FALSE

(* SELECT ... FOR UPDATE on the campaign. *)
CampaignLocked(c) == \E w \in Bookers : Books(w, "place") /\ booker[w].campaign = c
CommittedSpend(c) ==
  MapThenSumSet(LAMBDA p : p.cost, {p \in placements : p.campaign = c})
-----------------------------------------------------------------------------
CreateCampaign(c, budget) ==
  /\ campaigns[c] = NoCampaign
  /\ campaigns' = [campaigns EXCEPT ![c] = [status |-> "draft", budget |-> budget]]
  /\ UNCHANGED <<slots, placements, booker>>

CreateAdInventory(s) ==
  /\ s \notin slots
  /\ slots' = slots \union {s}
  /\ UNCHANGED <<campaigns, placements, booker>>

CheckCampaignStatus(w, c, target) ==
  /\ campaigns[c] # NoCampaign
  /\ target \in campaignStatusTransitions[campaigns[c].status]
  /\ Begins(w, [pc |-> "status", campaign |-> c, target |-> target])
  /\ UNCHANGED <<campaigns, slots, placements>>

UpdateCampaign(w) ==
  /\ Books(w, "status")
  /\ ~CampaignLocked(booker[w].campaign)
  /\ campaigns' = [campaigns EXCEPT ![booker[w].campaign].status = booker[w].target]
  /\ Ends(w)
  /\ UNCHANGED <<slots, placements>>

CheckPlacement(w, c, s, win, cost) ==
  /\ win.to > win.from
  /\ ~CampaignLocked(c)
  /\ campaigns[c].status \notin {"none", "ended"}
  /\ s \in slots
  /\ CommittedSpend(c) + cost <= campaigns[c].budget
  /\ Begins(w, [pc |-> "place", campaign |-> c, slot |-> s, window |-> win, cost |-> cost])
  /\ UNCHANGED <<campaigns, slots, placements>>

Meet(a, b) == a.from < b.to /\ b.from < a.to

(* ad_placements_no_overlap *)
SlotTaken(s, win) == \E p \in placements : p.slot = s /\ Meet(p.window, win)

(* The exclusion constraint judges the row; then the commit. *)
CreateAdPlacement(w) ==
  /\ Books(w, "place")
  /\ LET r == booker[w]
     IN  \/ /\ SlotTaken(r.slot, r.window)
            /\ UNCHANGED placements
         \/ /\ ~SlotTaken(r.slot, r.window)
            /\ Cardinality(placements) < MaxPlacements
            /\ placements' = placements \union
                 {[id |-> Cardinality(placements) + 1, campaign |-> r.campaign, slot |-> r.slot,
                   window |-> r.window, cost |-> r.cost]}
  /\ Ends(w)
  /\ UNCHANGED <<campaigns, slots>>

BookerStops(w) ==
  /\ booker[w] # NotBooking
  /\ Ends(w)
  /\ UNCHANGED <<campaigns, slots, placements>>

AdvertisingNext ==
  \/ \E c \in Campaigns, b \in Budgets : CreateCampaign(c, b)
  \/ \E s \in Slots : CreateAdInventory(s)
  \/ \E w \in Bookers :
       \/ \E c \in Campaigns, st \in CampaignStatuses : CheckCampaignStatus(w, c, st)
       \/ UpdateCampaign(w)
       \/ \E c \in Campaigns, s \in Slots, win \in AdWindows, x \in Costs :
            CheckPlacement(w, c, s, win, x)
       \/ CreateAdPlacement(w)
       \/ BookerStops(w)
-----------------------------------------------------------------------------
(* The placements of a campaign cost no more than its budget, although the
   spend is summed in one statement and added to in the next, by requests that
   run at once (CreateAdPlacement). *)
SpendWithinBudget ==
  \A c \in Campaigns : CommittedSpend(c) <= campaigns[c].budget

(* A campaign that has ended gets no new placement, although a request ends it
   between another one's look at the status and its insert: the status is read
   under the lock that UpdateCampaign waits for (CreateAdPlacement). *)
EndedTakesNoPlacement ==
  [][\A p \in placements' \ placements : campaigns[p.campaign].status # "ended"]_placements
=============================================================================
