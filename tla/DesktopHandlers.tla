--------------------------- MODULE DesktopHandlers --------------------------
(***************************************************************************)
(* The form handlers of the desktop till together with its licence and     *)
(* sessions.  The handlers of the club, of the print settings and of the   *)
(* catalogue touch records of different kinds, and the licence touches     *)
(* none, so a behaviour exercises one part, chosen at the start.           *)
(***************************************************************************)
EXTENDS CustomerClub, PrintSettings, Catalog, DesktopAuth

VARIABLE part

vars == <<part, recordVars, loose, authVars>>

HandlersInit ==
  /\ part \in {"club", "settings", "catalog", "auth"}
  /\ RecordsInit(CASE part = "club"     -> ClubRecords
                   [] part = "settings" -> SettingsRecords
                   [] part = "catalog"  -> CatalogRecords
                   [] part = "auth"     -> [none |-> [i \in Ids |-> Missing]])
  /\ loose = "no"
  /\ AuthInit

HandlersNext ==
  \/ /\ \/ /\ part = "club"
           /\ \E w \in Workers : ClubRequest(w)
           /\ UNCHANGED loose
        \/ /\ part = "settings"
           /\ \E w \in Workers : SettingsRequest(w)
           /\ UNCHANGED loose
        \/ /\ part = "catalog"
           /\ \E w \in Workers : CatalogRequest(w) \/ RecipeLookup(w)
        \/ RecordsStep /\ UNCHANGED loose
     /\ UNCHANGED <<part, authVars>>
  \/ /\ part = "auth"
     /\ AuthNext
     /\ UNCHANGED <<part, recordVars, loose>>

HandlersSpec == HandlersInit /\ [][HandlersNext]_vars

----------------------------------------------------------------------------
(* Properties.                                                             *)

\* The read-then-write handlers do what they say as long as requests come one
\* after the other and no listing is cut short: two customers never share a
\* phone (handleClubCustomer, handleClubGroupMember), a category has at most one
\* route (handlePrinterRouteSave), a payment is confirmed once
\* (handleClubPaymentConfirm), and a deleted group or category of the stock
\* leaves no customer and no ingredient behind that names it
\* (handleClubGroupDelete, handleLocalDelete).  Requests that overlap can break
\* each of these: the check and the write are separate transactions.
InTurn ==
  [][clean' = "yes" /\ cut' = "no" =>
       /\ part = "club" =>
            /\ \A c, d \in Live("customer")' :
                 c # d => records'["customer"][c].f["phone"] # records'["customer"][d].f["phone"]
            /\ \A p \in Ids :
                 Field("membership_payment", p, "status") = "paid" =>
                   records'["membership_payment"][p] = records["membership_payment"][p]
            /\ \A g \in Live("customer_group") :
                 g \notin Live("customer_group")' =>
                   \A c \in Live("customer")' : records'["customer"][c].f["group"] # g
       /\ part = "settings" =>
            \A r, q \in Live("printer_route")' :
              r # q => records'["printer_route"][r].f["category"] # records'["printer_route"][q].f["category"]
       /\ part = "catalog" =>
            \A k \in Live("ingredient_category") :
              k \notin Live("ingredient_category")' =>
                \A i \in Live("ingredient")' :
                  records'["ingredient"][i].f["category"] # Field("ingredient_category", k, "title")]_vars

\* handleClubPaymentConfirm: who has paid is a member, whatever other requests
\* do with the customer meanwhile, unless the program or the store failed
\* between the two writes.
PaidIsMember ==
  part = "club" /\ cut = "no" =>
    \A p \in Live("membership_payment") :
      Field("membership_payment", p, "status") = "paid" =>
        LET c == Field("membership_payment", p, "customer") IN
        \/ Field("customer", c, "member") = "true"
        \/ \E w \in Workers : Save("customer", c, [member |-> "true"], "no") \in Calls(w)

\* handleLocalSave: a product whose stock the form emptied in favour of a recipe
\* has that recipe, whatever other requests do, unless the form is still being
\* saved, the program or the store failed, or a recipe was deleted or given to
\* another product.
RecipeInsteadOfStock ==
  part = "catalog" /\ cut = "no" /\ loose = "no" =>
    \A p \in Live("product") :
      Field("product", p, "stock") = "none" =>
        \/ \E r \in Live("recipe") : Field("recipe", r, "product") = p
        \/ \E w \in Workers : \E c \in Calls(w) :
             c = RecipeOfProduct(p) \/ (c.kind = "recipe" /\ c.fields = [product |-> p])
=============================================================================
