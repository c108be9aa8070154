------------------------------ MODULE Catalogue ------------------------------
(***************************************************************************)
(* The catalogue and the home page that points into it: departments and    *)
(* categories in one table, products, the stock that makes them visible,   *)
(* the public lists and pages, and the banners and featured rows an editor *)
(* drafts and publishes.  Handlers run one at a time.                      *)
(*                                                                         *)
(* Names, prices, images and order are left out, and so are the filters    *)
(* of the lists that are about them.                                       *)
(***************************************************************************)
EXTENDS Integers, FiniteSets, FiniteSetsExt

CONSTANTS
  Cats,            \* ids of the categories table
  Products,
  Storages,
  Municipalities,
  Covering,        \* the storages that deliver to a municipality
  Banners,
  Featurable,      \* bound: what the editor may feature
  MaxQuantity,     \* bound: units of a product in a storage
  Null

VARIABLES
  categories,   \* departments have no parent
  products,
  inventory,    \* quantity and reserved, per product and storage
  storages,     \* is the storage active
  banners,      \* the draft of the hero section
  home          \* the draft layout and the published copy

vars == <<categories, products, inventory, storages, banners, home>>

-----------------------------------------------------------------------------
(* Rows and inputs *)

RowState == {"none", "live", "deleted"}

Category == [state : RowState, parentId : Cats \cup {Null}, isActive : BOOLEAN]
Product == [state : RowState, categoryId : Cats \cup {Null}, isActive : BOOLEAN]
Inventory == [quantity : 0 .. MaxQuantity, reserved : 0 .. MaxQuantity]

NoCategory == [state |-> "none", parentId |-> Null, isActive |-> FALSE]
NoProduct == [state |-> "none", categoryId |-> Null, isActive |-> FALSE]

(* Where a banner leads: a department, a category, a product, or nowhere.   *)
CmsBannerTarget == ({"department", "category"} \X Cats) \cup ({"product"} \X Products)
                   \cup {<<"nowhere", Null>>}

CmsBanner == [state : {"none", "live"}, isActive : BOOLEAN, target : CmsBannerTarget]
NoBanner == [state |-> "none", isActive |-> FALSE, target |-> <<"nowhere", Null>>]

(* The curated selections: products and departments the editor features.    *)
HomeLayout == SUBSET Featurable
DEFAULT_HOME_LAYOUT == {}
HomeSnapshot == [layout : HomeLayout, banners : SUBSET (Banners \X CmsBannerTarget)]
NeverPublished == [layout |-> DEFAULT_HOME_LAYOUT, banners |-> {}]

CreateCategoryDto == [departmentId : Cats, isActive : BOOLEAN]
UpdateCategoryDto == [departmentId : Cats \cup {Null}, isActive : BOOLEAN]
CreateProductDto == [categoryId : Cats, isActive : BOOLEAN]
UpdateProductDto == [categoryId : Cats \cup {Null}, isActive : BOOLEAN]

TypeOK ==
  /\ categories \in [Cats -> Category] /\ products \in [Products -> Product]
  /\ inventory \in [Products \X Storages -> Inventory]
  /\ storages \in [Storages -> BOOLEAN]
  /\ banners \in [Banners -> CmsBanner]
  /\ home.draft \in HomeLayout /\ home.published \in HomeSnapshot

-----------------------------------------------------------------------------
(* CategoriesService: the back office *)

Live(c) == categories[c].state = "live"

getDepartment(c) == Live(c) /\ categories[c].parentId = Null

getCategory(c) == Live(c)

getChildCategoryOrThrow(c) == Live(c) /\ categories[c].parentId # Null

countChildren(c) == Cardinality({k \in Cats : Live(k) /\ categories[k].parentId = c})

(* Mutant: only the products on sale. *)
countProducts_Active(c) ==
  Cardinality({p \in Products : products[p].state = "live" /\ products[p].isActive
                                /\ products[p].categoryId = c})

countProducts(c) ==
  Cardinality({p \in Products : products[p].state = "live" /\ products[p].categoryId = c})

createDepartment(c, active) ==
  /\ categories[c].state = "none"
  /\ categories' = [categories EXCEPT
       ![c] = [state |-> "live", parentId |-> Null, isActive |-> active]]
  /\ UNCHANGED <<products, inventory, storages, banners, home>>

updateDepartment(c, active) ==
  /\ getDepartment(c)
  /\ categories' = [categories EXCEPT ![c].isActive = active]
  /\ UNCHANGED <<products, inventory, storages, banners, home>>

removeDepartment(c) ==
  /\ getDepartment(c) /\ countChildren(c) = 0
  /\ categories' = [categories EXCEPT ![c].state = "deleted"]
  /\ UNCHANGED <<products, inventory, storages, banners, home>>

createCategory(c, dto) ==
  /\ categories[c].state = "none" /\ getDepartment(dto.departmentId)
  /\ categories' = [categories EXCEPT
       ![c] = [state |-> "live", parentId |-> dto.departmentId, isActive |-> dto.isActive]]
  /\ UNCHANGED <<products, inventory, storages, banners, home>>

(* The row is any row of the table, a department too; only the new parent   *)
(* is asked to be a department.                                             *)
updateCategory(c, dto) ==
  /\ getCategory(c)
  /\ dto.departmentId # Null => getDepartment(dto.departmentId)
  /\ categories' = [categories EXCEPT
       ![c].parentId = IF dto.departmentId = Null THEN @ ELSE dto.departmentId,
       ![c].isActive = dto.isActive]
  /\ UNCHANGED <<products, inventory, storages, banners, home>>

removeCategory(c) ==
  /\ getCategory(c) /\ categories[c].parentId # Null /\ countProducts(c) = 0
  /\ categories' = [categories EXCEPT ![c].state = "deleted"]
  /\ UNCHANGED <<products, inventory, storages, banners, home>>

-----------------------------------------------------------------------------
(* ProductsService *)

Create(p, dto) ==
  /\ products[p].state = "none" /\ getChildCategoryOrThrow(dto.categoryId)
  /\ products' = [products EXCEPT
       ![p] = [state |-> "live", categoryId |-> dto.categoryId, isActive |-> dto.isActive]]
  /\ UNCHANGED <<categories, inventory, storages, banners, home>>

Update(p, dto) ==
  /\ products[p].state = "live"
  /\ dto.categoryId # Null => getChildCategoryOrThrow(dto.categoryId)
  /\ products' = [products EXCEPT
       ![p].categoryId = IF dto.categoryId = Null THEN @ ELSE dto.categoryId,
       ![p].isActive = dto.isActive]
  /\ UNCHANGED <<categories, inventory, storages, banners, home>>

(* Not while a unit of it is left anywhere.                                 *)
Remove(p) ==
  /\ products[p].state = "live"
  /\ \A s \in Storages : inventory[p, s].quantity = 0
  /\ products' = [products EXCEPT ![p].state = "deleted"]
  /\ UNCHANGED <<categories, inventory, storages, banners, home>>

(* Units of a product that are free in some storages.                       *)
FreeIn(p, scope) ==
  MapThenSumSet(LAMBDA s : inventory[p, s].quantity - inventory[p, s].reserved, scope)

(* Over some storages, active ones only.                                    *)
stockMap(p, scope) == FreeIn(p, {s \in scope : storages[s]})

availableFor(p) == stockMap(p, Storages)

coveringLocationIds(area) == {s \in Covering[area] : storages[s]}

availableForArea(p, area) ==
  IF area = Null THEN availableFor(p) ELSE stockMap(p, coveringLocationIds(area))

(* /public/products under a category, in a delivery area or anywhere.       *)
findStorefront(c, area) ==
  {p \in Products : /\ products[p].state = "live" /\ products[p].isActive
                    /\ products[p].categoryId = c
                    /\ availableForArea(p, area) > 0}

-----------------------------------------------------------------------------
(* CategoriesService: what the store lists *)

productHasStockSql(p, area) ==
  FreeIn(p, {s \in Storages : storages[s] /\ (area # Null => s \in Covering[area])}) > 0

countValidProducts(c, area) ==
  Cardinality({p \in Products :
    /\ products[p].state = "live" /\ products[p].isActive
    /\ products[p].categoryId = c /\ productHasStockSql(p, area)})

categoryHasStockSql(c, area) ==
  \E p \in Products : /\ products[p].state = "live" /\ products[p].isActive
                      /\ products[p].categoryId = c /\ productHasStockSql(p, area)

countValidChildren(d, area) ==
  Cardinality({c \in Cats : /\ Live(c) /\ categories[c].isActive
                            /\ categories[c].parentId = d /\ categoryHasStockSql(c, area)})

listPublicCategories(area) ==
  {c \in Cats : /\ Live(c) /\ categories[c].isActive /\ categories[c].parentId # Null
                /\ categoryHasStockSql(c, area)}

listPublicDepartments(area) ==
  {d \in Cats : /\ getDepartment(d) /\ categories[d].isActive
                /\ countValidChildren(d, area) > 0}

(* The navigation tree: each department with its categories and their counts. *)
getPublicCatalog(area) ==
  [d \in listPublicDepartments(area) |->
     [c \in {k \in listPublicCategories(area) : categories[k].parentId = d} |->
        countValidProducts(c, area)]]

getPublicDepartment(c) == getDepartment(c) /\ categories[c].isActive

getPublicCategory(c) == getChildCategoryOrThrow(c) /\ categories[c].isActive

(* The page of a product: it loads the category before it looks at the      *)
(* product.                                                                 *)
PublicProduct(p) ==
  /\ products[p].state = "live" /\ products[p].isActive
  /\ getCategory(products[p].categoryId)

-----------------------------------------------------------------------------
(* CmsService: banners *)

validateBannerTarget(t) ==
  CASE t[1] = "product" -> products[t[2]].state = "live"
    [] t[1] = "department" -> getDepartment(t[2])
    [] t[1] = "category" -> getChildCategoryOrThrow(t[2])
    [] OTHER -> TRUE

(* Is what the banner leads to still in the public catalogue.               *)
resolveBannerTarget(t) ==
  CASE t[1] = "product" -> /\ products[t[2]].state = "live" /\ products[t[2]].isActive
                           /\ availableFor(t[2]) > 0
    [] t[1] = "department" -> getDepartment(t[2]) /\ t[2] \in listPublicDepartments(Null)
    [] t[1] = "category" -> getChildCategoryOrThrow(t[2]) /\ t[2] \in listPublicCategories(Null)
    [] OTHER -> TRUE

resolveVisibleBanners(shown) == {b \in shown : resolveBannerTarget(b[2])}

createBanner(b, t, active) ==
  /\ banners[b].state = "none" /\ validateBannerTarget(t)
  /\ banners' = [banners EXCEPT ![b] = [state |-> "live", isActive |-> active, target |-> t]]
  /\ UNCHANGED <<categories, products, inventory, storages, home>>

(* A target that is not sent stays as it is, and is not validated again.    *)
updateBanner(b, t, active) ==
  /\ banners[b].state = "live"
  /\ t = banners[b].target \/ validateBannerTarget(t)
  /\ banners' = [banners EXCEPT ![b].target = t, ![b].isActive = active]
  /\ UNCHANGED <<categories, products, inventory, storages, home>>

removeBanner(b) ==
  /\ banners[b].state = "live"
  /\ banners' = [banners EXCEPT ![b] = NoBanner]
  /\ UNCHANGED <<categories, products, inventory, storages, home>>

-----------------------------------------------------------------------------
(* CmsHomeService *)

assertProductsExist(ids) == \A p \in ids \cap Products : products[p].state = "live"
assertDepartmentsExist(ids) == \A d \in ids \cap Cats : getDepartment(d)

updateLayout(layout) ==
  /\ assertProductsExist(layout) /\ assertDepartmentsExist(layout)
  /\ home' = [home EXCEPT !.draft = layout]
  /\ UNCHANGED <<categories, products, inventory, storages, banners>>

(* The draft with the active banners, as copies.                            *)
buildDraftSnapshot ==
  [layout |-> home.draft,
   banners |-> {<<b, banners[b].target>> :
                  b \in {k \in Banners : banners[k].state = "live" /\ banners[k].isActive}}]

Publish ==
  /\ home' = [home EXCEPT !.published = buildDraftSnapshot]
  /\ UNCHANGED <<categories, products, inventory, storages, banners>>

getPublishedHome ==
  [layout |-> home.published.layout, banners |-> resolveVisibleBanners(home.published.banners)]

-----------------------------------------------------------------------------
(* Stock moves and storages open and close (Inventory, Delivery): here they *)
(* are the world.                                                           *)
SetStock(p, s, row) ==
  /\ products[p].state = "live"
  /\ row.reserved <= row.quantity
  /\ inventory' = [inventory EXCEPT ![<<p, s>>] = row]
  /\ UNCHANGED <<categories, products, storages, banners, home>>

ToggleStorage(s) ==
  /\ storages' = [storages EXCEPT ![s] = ~ @]
  /\ UNCHANGED <<categories, products, inventory, banners, home>>

Init ==
  /\ categories = [c \in Cats |-> NoCategory] /\ products = [p \in Products |-> NoProduct]
  /\ inventory = [ps \in Products \X Storages |-> [quantity |-> 0, reserved |-> 0]]
  /\ storages = [s \in Storages |-> TRUE]
  /\ banners = [b \in Banners |-> NoBanner]
  /\ home = [draft |-> DEFAULT_HOME_LAYOUT, published |-> NeverPublished]

Taxonomy ==
  \E c \in Cats :
    \/ \E active \in BOOLEAN : createDepartment(c, active) \/ updateDepartment(c, active)
    \/ removeDepartment(c) \/ removeCategory(c)
    \/ \E dto \in CreateCategoryDto : createCategory(c, dto)
    \/ \E dto \in UpdateCategoryDto : updateCategory(c, dto)

Goods ==
  \E p \in Products :
    \/ \E dto \in CreateProductDto : Create(p, dto)
    \/ \E dto \in UpdateProductDto : Update(p, dto)
    \/ Remove(p)
    \/ \E s \in Storages, row \in Inventory : SetStock(p, s, row)

Editing ==
  \/ \E b \in Banners : removeBanner(b) \/ \E t \in CmsBannerTarget, active \in BOOLEAN :
                                             createBanner(b, t, active) \/ updateBanner(b, t, active)
  \/ \E layout \in HomeLayout : updateLayout(layout)
  \/ Publish

Next == Taxonomy \/ Goods \/ Editing \/ \E s \in Storages : ToggleStorage(s)

Spec == Init /\ [][Next]_vars

-----------------------------------------------------------------------------
(* Properties *)

(* The page a banner opens. *)
Served(t) ==
  CASE t[1] = "product" -> PublicProduct(t[2])
    [] t[1] = "department" -> getPublicDepartment(t[2])
    [] t[1] = "category" -> getPublicCategory(t[2])
    [] OTHER -> TRUE

(***************************************************************************)
(* ShownIsServed: whatever happened to the catalogue after the home was    *)
(* published, a banner the store shows leads to a page that answers, and   *)
(* the number next to each category of the navigation, in every delivery   *)
(* area, is the number of products its page lists: two families of queries *)
(* written apart agree.                                                    *)
(***************************************************************************)
ShownIsServed ==
  /\ \A b \in getPublishedHome.banners : Served(b[2])
  /\ \A area \in Municipalities \cup {Null} :
       LET tree == getPublicCatalog(area)
       IN  \A d \in DOMAIN tree : \A c \in DOMAIN tree[d] :
             tree[d][c] = Cardinality(findStorefront(c, area))

(***************************************************************************)
(* NoGrandchildren: a category only hangs off a department, as the comment *)
(* of createCategory says.                                                 *)
(***************************************************************************)
NoGrandchildren ==
  \A c \in Cats : Live(c) /\ categories[c].parentId # Null
                  => categories[categories[c].parentId].parentId = Null
=============================================================================
