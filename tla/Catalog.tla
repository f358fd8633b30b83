------------------------------- MODULE Catalog ------------------------------
(***************************************************************************)
(* Products, recipes, ingredients and the daily check list: /local/save,   *)
(* /local/delete, the recipe form, the product import and the check-list   *)
(* switch of app.go.  Kinds whose form is saved as it stands (tables,      *)
(* suppliers, expenses and the like) behave as PlainSave and PlainDelete   *)
(* with their own kind.                                                    *)
(***************************************************************************)
EXTENDS LocalRecords

CONSTANTS Labels         \* titles of ingredient categories

VARIABLE loose           \* history: "yes" once a recipe was deleted, or given to
                         \* another product by the recipe form

\* handleLocalSave of a kind without rules of its own, here the ingredients,
\* which name their category by its title.
PlainSave(w) ==
  \/ \E id \in Fresh("ingredient"), l \in Labels :
       Begin(w, <<Save("ingredient", id, [category |-> l], "yes")>>, {})
  \/ \E id \in Known("ingredient"), l \in Labels :
       Begin(w, <<Save("ingredient", id, [category |-> l], "yes")>>, {})

\* The second half of the product form, made when the first is through.
RecipeOfProduct(p) == [op |-> "recipe", kind |-> "product", id |-> p, fields |-> NoFields, must |-> "no"]

\* handleLocalSave of a product: a form with recipe lines whose ingredients are
\* there empties the stock and saves the recipe after the product; one without
\* them saves the stock typed in, and an empty box leaves the stock alone.
ProductForm(w) ==
  \E p \in Fresh("product") \cup Known("product") :
    \/ \E fields \in {[stock |-> "typed"], NoFields} : Begin(w, <<Save("product", p, fields, "yes")>>, {})
    \/ /\ Live("ingredient") # {}
       /\ Begin(w, <<Save("product", p, [stock |-> "none"], "yes"), RecipeOfProduct(p)>>, {})

\* Mutant: the first recipe listed is taken, whose ever it is.
RecipeLookupAny(w) ==
  /\ ~Idle(w)
  /\ Head(work[w]).op = "recipe"
  /\ \E r \in IF Entities("recipe") = {} THEN Fresh("recipe") ELSE Entities("recipe") :
       /\ \A q \in Entities("recipe") : r <= q
       /\ work' = [work EXCEPT ![w] = <<Save("recipe", r, [product |-> Head(work[w]).id], "no")>>]
  /\ UNCHANGED <<records, served, clean, cut, loose>>

\* The first recipe listed for the product is written over, or a new one made.
\* A product that is gone by now gets none.
RecipeLookup(w) ==
  /\ ~Idle(w)
  /\ Head(work[w]).op = "recipe"
  /\ LET p    == Head(work[w]).id
         mine == {r \in Entities("recipe") : Has("recipe", r, "product", p)} IN
     IF ~IsLive("product", p) THEN work' = [work EXCEPT ![w] = << >>]
     ELSE \E r \in IF mine = {} THEN Fresh("recipe") ELSE mine :
            /\ \A q \in mine : r <= q
            /\ work' = [work EXCEPT ![w] = <<Save("recipe", r, [product |-> p], "no")>>]
  /\ UNCHANGED <<records, served, clean, cut, loose>>

handleLocalSave(w) == (PlainSave(w) \/ ProductForm(w)) /\ UNCHANGED loose

\* The recipe form names its recipe or makes a new one, whatever the product has.
handleSaveRecipe(w) ==
  \E p \in Live("product"), r \in Fresh("recipe") \cup Known("recipe") :
    /\ Live("ingredient") # {}
    /\ loose' = IF r \in Live("recipe") /\ ~Has("recipe", r, "product", p) THEN "yes" ELSE loose
    /\ Begin(w, <<Save("recipe", r, [product |-> p], "yes")>>, {})

\* One product per row; a row that fails is counted and the next one tried.
handleProductsImport(w) ==
  \E a, b \in Fresh("product") :
    /\ a # b
    /\ Begin(w, << Save("product", a, [stock |-> "typed"], "no"), Save("product", b, [stock |-> "typed"], "no") >>, {})
    /\ UNCHANGED loose

PlainDelete(w) ==
  \E kind \in {"product", "recipe", "ingredient"} :
    \E id \in Live(kind) :
      /\ loose' = IF kind = "recipe" THEN "yes" ELSE loose
      /\ Begin(w, <<Delete(kind, id)>>, {})

\* A category of the stock is deleted only when no listed ingredient names it.
DeleteCategory(w) ==
  \E id \in Live("ingredient_category") :
    /\ \A i \in Entities("ingredient") : Field("ingredient", i, "category") # Field("ingredient_category", id, "title")
    /\ Begin(w, <<Delete("ingredient_category", id)>>, {"ingredient"})

handleLocalDelete(w) == PlainDelete(w) \/ (DeleteCategory(w) /\ UNCHANGED loose)

handleTaskToggle(w) ==
  /\ \E t \in Live("task") :
       Begin(w, <<Save("task", t, [done |-> IF Field("task", t, "done") = "true" THEN "false" ELSE "true"], "no")>>, {})
  /\ UNCHANGED loose

CatalogRequest(w) ==
  \/ handleLocalSave(w) \/ handleSaveRecipe(w) \/ handleProductsImport(w) \/ handleLocalDelete(w) \/ handleTaskToggle(w)

CatalogRecords ==
  LET one(fields) == [i \in Ids |-> IF i = 1 THEN Stored(fields) ELSE Missing]
      label == CHOOSE l \in Labels : TRUE IN
  [product             |-> one([stock |-> "typed"]),
   recipe              |-> [i \in Ids |-> Missing],
   ingredient          |-> one([category |-> label]),
   ingredient_category |-> one([title |-> label]),
   task                |-> one([done |-> "false"])]
=============================================================================
