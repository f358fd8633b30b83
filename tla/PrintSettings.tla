---------------------------- MODULE PrintSettings ---------------------------
(***************************************************************************)
(* The settings printing depends on: the handlers of app.go that save the  *)
(* printer switch, the print policy, the stages of the till and the route  *)
(* of a category to a printer.  PrintRouting says what they mean.          *)
(***************************************************************************)
EXTENDS LocalRecords

CONSTANTS Copies         \* copies a route form may ask for

Profile == 1             \* the one cafe_profile record

\* Its id is fixed in the code, and an id like any other.
ASSUME ProfileIsThere == Profile \in Ids

handlePrinterToggle(w) ==
  \E on \in {"true", "false"} :
    Begin(w, <<Save("cafe_profile", Profile, [printer_enabled |-> on], "yes")>>, {})

\* A form may hold some of the four moments; the others keep their settings.
handlePrintPolicy(w) ==
  \E moments \in {{"pw_create"}, {"pw_create", "pw_checkout"}}, mode \in {"none", "both"} :
    Begin(w, <<Save("cafe_profile", Profile, [m \in moments |-> mode], "yes")>>, {})

handlePOSStages(w) ==
  \E stages \in {"ready", "none"} :
    Begin(w, <<Save("cafe_profile", Profile, [pos_stages |-> stages], "yes")>>, {})

RoutesOf(c) == {r \in Entities("printer_route") : Has("printer_route", r, "category", c)}

\* The last route listed for the category is replaced; its switch is kept.
SaveRoute(w, c, p, n) ==
  LET old == RoutesOf(c)
      on(r) == [category |-> c, printer |-> p, copies |-> n, active |-> Field("printer_route", r, "active")] IN
  \/ \E r \in old : /\ \A q \in old : q <= r
                    /\ Begin(w, <<Save("printer_route", r, on(r), "yes")>>, {"printer_route"})
  \/ /\ old = {}
     /\ \E id \in Fresh("printer_route") :
          Begin(w, <<Save("printer_route", id, [category |-> c, printer |-> p, copies |-> n, active |-> "true"], "yes")>>,
                {"printer_route"})

\* A form without a printer deletes the route.
ClearRoute(w, c) ==
  \E r \in RoutesOf(c) :
    /\ \A q \in RoutesOf(c) : q <= r
    /\ Begin(w, <<Delete("printer_route", r)>>, {"printer_route"})

handlePrinterRouteSave(w) ==
  \E c \in Live("category") :
    \/ \E p \in Live("printer"), n \in Copies : SaveRoute(w, c, p, n)
    \/ ClearRoute(w, c)

\* The first route listed for the category is switched.
handlePrinterRouteToggle(w) ==
  \E c \in Known("category") : \E r \in RoutesOf(c) :
    /\ \A q \in RoutesOf(c) : r <= q
    /\ Begin(w, <<Save("printer_route", r,
                       [active |-> IF Field("printer_route", r, "active") = "false" THEN "true" ELSE "false"],
                       "yes")>>, {"printer_route"})

SettingsRequest(w) ==
  \/ handlePrinterToggle(w) \/ handlePrintPolicy(w) \/ handlePOSStages(w)
  \/ handlePrinterRouteSave(w) \/ handlePrinterRouteToggle(w)

SettingsRecords ==
  [cafe_profile  |-> [i \in Ids |-> IF i = Profile THEN Stored([pos_stages |-> "ready"]) ELSE Missing],
   category      |-> [i \in Ids |-> IF i <= 2 THEN Stored([title |-> "c"]) ELSE Missing],
   printer       |-> [i \in Ids |-> IF i <= 2 THEN Stored([title |-> "p"]) ELSE Missing],
   printer_route |-> [i \in Ids |-> Missing]]
=============================================================================
