------------------------------ MODULE MCOffice ------------------------------
(***************************************************************************)
(* An instance of Office for TLC: two of everything that can meet another  *)
(* of its kind.                                                            *)
(***************************************************************************)
EXTENDS Office, TLC

CONSTANTS s1, u1

TwoSettings == "hotel_name" :> "a" @@ TaxKey :> [f \in TaxFields |-> IF f = "vatRate" THEN 1 ELSE 0]
OneService == s1 :> [name |-> "a", active |-> TRUE]
OneUser == u1 :> [email |-> "m", role |-> "ADMIN", active |-> TRUE]

\* A row of the one who asks and one of somebody else.
TwoRows == <<[id |-> 1, mine |-> TRUE, fit |-> "all"], [id |-> 2, mine |-> FALSE, fit |-> "query"]>>

\* Two tables, and two indexes on columns that were added later, one of them unique.
SmallSchema ==
    <<[do |-> "table", name |-> "rooms", on |-> "rooms", columns |-> {"id", "price"}],
      [do |-> "table", name |-> "bookings", on |-> "bookings", columns |-> {"id", "room", "source"}],
      [do |-> "index", name |-> "bookings_room", on |-> "bookings", columns |-> {"room"},
       unique |-> FALSE],
      [do |-> "index", name |-> "bookings_source", on |-> "bookings", columns |-> {"id", "source"},
       unique |-> TRUE]>>

\* Nothing; bookings without room and source; rooms without the price, which cannot be
\* added.
EarlierSchemas ==
    {<< >>,
     "rooms" :> {"id", "price"} @@ "bookings" :> {"id"},
     "rooms" :> {"id"}}
PriceIsRequired == {<<"rooms", "price">>}

\* What happens together: the plain settings; the taxes; the services; users; the
\* desk; contents and media; articles; a list; scripts and start.
Mixes == {{"readSettings", "setValue", "updateSetting", "removeSetting", "restart"},
          {"readSettings", "updateTaxes", "restart"},
          {"readService", "readList", "createService", "updateService", "toggleService",
           "removeService", "restart"},
          {"register", "guestBooks", "setActive", "setRole", "validate", "seedAdmin"},
          {"createInquiry", "updateInquiry", "removeInquiry", "removeOwner"},
          {"createMessage", "updateMessage", "removeMessage", "removeOwner"},
          {"createContent", "updateContent", "removeContent", "addMedia", "upload", "removeMedia", "removeLink"},
          {"upload", "removeMedia", "restart"},
          {"createArticle", "updateArticle", "publishArticle", "removeArticle"},
          {"walk", "insertRow", "removeRow", "editRow"},
          {"init", "migrate", "start", "repeat", "restart"}}

\* Only the scripts look at the schema there at the start.
MCInit == Init /\ ("migrate" \in workload \/ DOMAIN columns = {})

MCSpec == MCInit /\ [][Next]_officeVars /\ Fairness

\* Lists of the catalogue and its changes.
ListMix == {{"createService", "readList", "updateService"}}
=============================================================================
