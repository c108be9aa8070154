------------------------------- MODULE Routes -------------------------------
(***************************************************************************)
(* The HTTP surface: one table per controller, a sequence of its routes in *)
(* the order Nest registers them.  A route is its verb, its path, what the *)
(* decorators demand of the caller and the service operation it hands the  *)
(* request to.  Bodies, answers and documentation are left out.            *)
(***************************************************************************)
EXTENDS Naturals, Sequences, FiniteSets

-----------------------------------------------------------------------------
(* What a route demands *)

(* A path parameter: it stands for any one segment. *)
ID == ":id"

SUPER_ADMIN == "SUPER_ADMIN"
ADMIN == "ADMIN"
STAFF == "STAFF"

Gate(kind, needs, tiers) == [kind |-> kind, needs |-> needs, tiers |-> tiers]

(* @Public: the guards let it through; a signature or a secret is the service's. *)
Public == Gate("public", <<>>, {})

(* @Public with ClerkClientAuthGuard: a client of the shop. *)
Client == Gate("client", <<>>, {})

RequirePermission(module, action) == Gate("permission", <<module, action>>, {})

Roles(tiers) == Gate("tiers", <<>>, tiers)

AnyAuthenticated == Gate("any", <<>>, {})

Admins == Roles({SUPER_ADMIN, ADMIN})

Route(verb, path, gate, op) ==
  [verb |-> verb, path |-> path, gate |-> gate, op |-> op]

(* The five routes of a resource, each under its own permission. *)
Crud(base, module, ops) ==
  << Route("GET", base, RequirePermission(module, "list"), ops[1]),
     Route("GET", base \o <<ID>>, RequirePermission(module, "read"), ops[2]),
     Route("POST", base, RequirePermission(module, "create"), ops[3]),
     Route("PATCH", base \o <<ID>>, RequirePermission(module, "update"), ops[4]),
     Route("DELETE", base \o <<ID>>, RequirePermission(module, "delete"), ops[5]) >>

(* The routes of a controller that all answer to the same gate. *)
Under(gate, base, entries) ==
  [k \in DOMAIN entries |->
     Route(entries[k][1], base \o entries[k][2], gate, entries[k][3])]

(* The routes of one module of the catalogue: verb, rest of the path, action, operation. *)
Within(module, base, entries) ==
  [k \in DOMAIN entries |->
     Route(entries[k][1], base \o entries[k][2],
           RequirePermission(module, entries[k][3]), entries[k][4])]

-----------------------------------------------------------------------------
(* The back office *)

AuthController == Under(AnyAuthenticated, <<"auth">>, << <<"GET", <<"me">>, "me">> >>)

PermissionsController ==
  Under(Admins, <<"permissions">>,
    << <<"GET", <<>>, "listPermissions">>,
       <<"POST", <<"roles">>, "createRole">>,
       <<"GET", <<"roles">>, "listRoles">>,
       <<"GET", <<"roles", ID>>, "getRole">>,
       <<"PATCH", <<"roles", ID>>, "updateRole">>,
       <<"DELETE", <<"roles", ID>>, "deleteRole">>,
       <<"PUT", <<"roles", ID, "permissions">>, "setRolePermissions">>,
       <<"GET", <<"users", ID, "roles">>, "getUserRoles">>,
       <<"PUT", <<"users", ID, "roles">>, "setUserRoles">>,
       <<"GET", <<"users", ID>>, "getUserPermissions">> >>)

(* A decorator of the method overrides that of the class: only restore is narrower. *)
UsersController ==
  Under(Admins, <<"users">>,
    << <<"GET", <<>>, "findAll">>,
       <<"GET", <<"lookup">>, "findByClerkId">>,
       <<"GET", <<ID>>, "findOne">>,
       <<"POST", <<>>, "create">>,
       <<"PATCH", <<ID>>, "update">>,
       <<"PATCH", <<ID, "password">>, "setPassword">>,
       <<"DELETE", <<ID>>, "remove">> >>)
  \o Under(Roles({SUPER_ADMIN}), <<"users">>, << <<"POST", <<ID, "restore">>, "restore">> >>)
  \o Under(Admins, <<"users">>,
    << <<"POST", <<"invite">>, "createAndSendInvitation">>,
       <<"POST", <<"invitations", ID, "revoke">>, "revoke">>,
       <<"POST", <<"invitations", ID, "resend">>, "resend">> >>)

ClientsController ==
  Within("clients", <<"clients">>,
    << <<"GET", <<>>, "list", "findAll">>,
       <<"GET", <<"lookup">>, "list", "findByClerkId">>,
       <<"GET", <<ID>>, "read", "findOne">>,
       <<"GET", <<ID, "beneficiaries">>, "read", "findBeneficiaries">>,
       <<"POST", <<"invitations">>, "create", "invite">>,
       <<"DELETE", <<"invitations", ID>>, "create", "revocar">>,
       <<"POST", <<>>, "create", "create">>,
       <<"PATCH", <<ID>>, "update", "update">>,
       <<"DELETE", <<ID>>, "delete", "remove">> >>)

CategoriesController ==
  Crud(<<"categories">>, "categories",
    <<"listCategories", "getCategory", "createCategory", "updateCategory", "removeCategory">>)

DepartmentsController ==
  Crud(<<"departments">>, "departments",
    <<"listDepartments", "getDepartment", "createDepartment", "updateDepartment",
      "removeDepartment">>)

ProductsController ==
  Crud(<<"products">>, "products", <<"findAll", "findOne", "create", "update", "remove">>)

NomenclatorsController ==
  Crud(<<"nomenclators">>, "nomenclators", <<"listAdmin", "getOne", "create", "update", "remove">>)

DeliveryOptionsController ==
  Crud(<<"delivery-options">>, "delivery-options",
    <<"findAllOptions", "findOneOption", "createOption", "updateOption", "removeOption">>)

StockLocationsController ==
  Within("stock-locations", <<"stock-locations">>,
    << <<"GET", <<>>, "list", "findAll">>,
       <<"GET", <<"assignable-users">>, "update", "listAssignableUsers">>,
       <<"GET", <<ID>>, "read", "findOne">>,
       <<"POST", <<>>, "create", "create">>,
       <<"PATCH", <<ID>>, "update", "update">>,
       <<"DELETE", <<ID>>, "delete", "remove">> >>)

InventoryController ==
  Within("inventory", <<"inventory">>,
    << <<"GET", <<"aggregate">>, "aggregate", "aggregateByProduct">>,
       <<"GET", <<"product", ID, "history">>, "history", "history">>,
       <<"GET", <<"location", ID, "history">>, "history", "locationHistory">>,
       <<"GET", <<>>, "list", "listInventory">>,
       <<"GET", <<"operations">>, "list", "listOperations">>,
       <<"GET", <<"product", ID>>, "read", "stockByProduct">>,
       <<"POST", <<"operations">>, "create-operation", "createOperation">> >>)

FulfillmentSettingsController ==
  Within("fulfillment-settings", <<"fulfillment-settings">>,
    << <<"GET", <<>>, "read", "getSettingsResponse">>,
       <<"PATCH", <<>>, "update", "updateSettings">> >>)

(* The delivery choices of an order taken over the telephone. *)
FulfillmentController ==
  Within("orders", <<"fulfillment">>, << <<"GET", <<>>, "create", "availableForClient">> >>)

RefundsController ==
  Within("refunds", <<"refunds">>,
    << <<"GET", <<>>, "list", "listQueue">>,
       <<"POST", <<ID, "complete">>, "complete", "complete">>,
       <<"POST", <<ID, "reject">>, "reject", "reject">> >>)

OrderRefundsController ==
  Within("refunds", <<"orders", ID, "refunds">>,
    << <<"GET", <<>>, "read", "listForOrder">>,
       <<"GET", <<"summary">>, "read", "summary">>,
       <<"POST", <<>>, "request", "request">> >>)

CollectionsController ==
  Within("payments", <<"payments", "collections">>, << <<"GET", <<>>, "list", "find">> >>)

(* Reading the methods comes with the orders; changing them is the admins'. *)
PaymentMethodsController ==
  Within("orders", <<"payment-methods">>, << <<"GET", <<>>, "list", "findAll">> >>)
  \o Under(Admins, <<"payment-methods">>,
    << <<"POST", <<>>, "create">>,
       <<"PATCH", <<ID>>, "update">>,
       <<"DELETE", <<ID>>, "remove">> >>)

DashboardController ==
  Within("dashboard", <<"dashboard">>,
    << <<"GET", <<"stats">>, "view", "getStats">>,
       <<"GET", <<"top-products">>, "view", "getTopProducts">> >>)

UploadsController ==
  Within("uploads", <<"uploads">>, << <<"POST", <<"image">>, "create", "uploadImage">> >>)

-----------------------------------------------------------------------------
(* The orders' controller, in the three stretches its routes come in *)

OrdersProgress ==
  Within("orders", <<"orders">>,
    << <<"GET", <<>>, "list", "findAllAdmin">>,
       <<"POST", <<>>, "create", "crearParaCliente">>,
       <<"GET", <<ID>>, "read", "findOneAdmin">>,
       <<"PATCH", <<ID, "status">>, "update-status", "updateStatus">> >>)
  \o Under(Admins, <<"orders">>, << <<"POST", <<ID, "reinstate">>, "reinstate">> >>)

OrdersPayment ==
  Within("orders", <<"orders">>,
    << <<"PATCH", <<ID, "payment-status">>, "update-payment-status", "updatePaymentStatus">> >>)
  \o Under(Roles({SUPER_ADMIN}), <<"orders">>,
    << <<"POST", <<ID, "correct">>, "correct">>,
       <<"PATCH", <<ID, "items">>, "updateItems">> >>)
  \o Within("orders", <<"orders">>,
    << <<"GET", <<ID, "payment-attempts">>, "read", "listPaymentAttempts">> >>)
  \o Under(Roles({SUPER_ADMIN}), <<"orders">>,
    << <<"DELETE", <<ID, "payment-attempts", ID>>, "removePaymentAttempt">> >>)

(* Mutant: the order's own PDF is registered before the report's. *)
OrdersReports_PdfFirst ==
  Within("orders", <<"orders">>,
    << <<"GET", <<ID, "pdf">>, "read", "generate">>,
       <<"GET", <<"report", "pdf">>, "read", "findAllForReport">>,
       <<"POST", <<"report", "email">>, "read", "enviar">>,
       <<"GET", <<ID, "events">>, "read", "listEvents">> >>)

(* The report's path is registered before ":id/pdf", which would take it. *)
OrdersReports ==
  Within("orders", <<"orders">>,
    << <<"GET", <<"report", "pdf">>, "read", "findAllForReport">>,
       <<"POST", <<"report", "email">>, "read", "enviar">>,
       <<"GET", <<ID, "pdf">>, "read", "generate">>,
       <<"GET", <<ID, "events">>, "read", "listEvents">> >>)

OrdersController == OrdersProgress \o OrdersPayment \o OrdersReports

-----------------------------------------------------------------------------
(* The shop's content *)

CmsBannersController ==
  Crud(<<"cms", "banners">>, "cms-banners",
    <<"listBannersAdmin", "getBanner", "createBanner", "updateBanner", "removeBanner">>)

CmsServicesController ==
  Crud(<<"cms", "services">>, "cms-services",
    <<"listServicesAdmin", "getService", "createService", "updateService", "removeService">>)

CmsStaffController ==
  Crud(<<"cms", "staff">>, "cms-staff",
    <<"listStaffAdmin", "getStaffMember", "createStaffMember", "updateStaffMember",
      "removeStaffMember">>)

CmsSettingsController ==
  Within("cms-settings", <<"cms", "settings">>,
    << <<"GET", <<>>, "read", "getSettingsRow">>,
       <<"PATCH", <<>>, "update", "updateSettings">> >>)

CmsFaqController ==
  Under(Admins, <<"cms", "faq">>,
    << <<"GET", <<"categories">>, "listCategoriesAdmin">>,
       <<"GET", <<"categories", ID>>, "getCategory">>,
       <<"POST", <<"categories">>, "createCategory">>,
       <<"PATCH", <<"categories", ID>>, "updateCategory">>,
       <<"DELETE", <<"categories", ID>>, "removeCategory">>,
       <<"GET", <<"questions">>, "listQuestionsAdmin">>,
       <<"GET", <<"questions", ID>>, "getQuestion">>,
       <<"POST", <<"questions">>, "createQuestion">>,
       <<"PATCH", <<"questions", ID>>, "updateQuestion">>,
       <<"DELETE", <<"questions", ID>>, "removeQuestion">> >>)

CmsHomeController ==
  Within("cms-home", <<"cms", "home">>,
    << <<"GET", <<>>, "read", "getEditorState">>,
       <<"PATCH", <<>>, "update", "updateLayout">>,
       <<"POST", <<"publish">>, "publish", "publish">>,
       <<"POST", <<"preview">>, "read", "createPreviewLink">>,
       <<"GET", <<"changes">>, "read", "listRecent">> >>)

(* Pages and home notices are the same seven routes under two bases. *)
CmsTextsController(base) ==
  Within("cms-pages", base,
    << <<"GET", <<>>, "list", "listAdmin">>,
       <<"GET", <<ID>>, "read", "get">>,
       <<"POST", <<>>, "create", "create">>,
       <<"PATCH", <<ID>>, "update", "update">>,
       <<"POST", <<ID, "publish">>, "publish", "publish">>,
       <<"GET", <<ID, "versions">>, "read", "listVersions">>,
       <<"DELETE", <<ID>>, "delete", "remove">> >>)

CmsPagesController == CmsTextsController(<<"cms", "pages">>)

CmsHomeNoticesController == CmsTextsController(<<"cms", "home-notices">>)

ContactMessagesController ==
  Within("contact", <<"contact", "messages">>,
    << <<"GET", <<>>, "list", "listMessages">>,
       <<"GET", <<"config">>, "list", "platformReplyEnabled">>,
       <<"GET", <<ID>>, "read", "getMessage">>,
       <<"PATCH", <<ID, "status">>, "update", "updateStatus">>,
       <<"POST", <<ID, "replies">>, "reply", "addReply">> >>)

ContactTemplatesController ==
  Crud(<<"contact", "templates">>, "contact",
    <<"listTemplates", "getTemplate", "createTemplate", "updateTemplate", "removeTemplate">>)

-----------------------------------------------------------------------------
(* The shop: its clients, identified by the store's Clerk *)

CartController ==
  Under(Client, <<"cart">>,
    << <<"GET", <<>>, "getCart">>,
       <<"POST", <<"items">>, "addItem">>,
       <<"PATCH", <<"items", ID>>, "updateItem">>,
       <<"DELETE", <<"items", ID>>, "removeItem">>,
       <<"DELETE", <<>>, "clear">> >>)

ClientAddressesController ==
  Under(Client, <<"storefront", "addresses">>,
    << <<"GET", <<>>, "findAllForClient">>,
       <<"GET", <<ID>>, "findOneForClient">>,
       <<"POST", <<>>, "create">>,
       <<"PATCH", <<ID>>, "update">>,
       <<"PATCH", <<ID, "default">>, "setDefault">>,
       <<"DELETE", <<ID>>, "remove">> >>)

StorefrontOrdersController ==
  Under(Client, <<"storefront", "orders">>,
    << <<"POST", <<>>, "checkout">>,
       <<"GET", <<>>, "findForClient">>,
       <<"GET", <<ID>>, "findOneForClient">>,
       <<"GET", <<ID, "payment">>, "getChargeForClient">>,
       <<"POST", <<ID, "payment">>, "createChargeForClient">>,
       <<"POST", <<ID, "payment", "proof">>, "submitProof">>,
       <<"POST", <<ID, "cancel">>, "cancelByClient">> >>)

StorefrontFulfillmentController ==
  Under(Client, <<"storefront", "fulfillment">>, << <<"GET", <<>>, "availableForClient">> >>)

StorefrontPaymentMethodsController ==
  Under(Client, <<"storefront", "payment-methods">>,
    << <<"GET", <<>>, "findAvailableForStorefront">> >>)

-----------------------------------------------------------------------------
(* Open to everybody *)

AppController == Under(Public, <<>>, << <<"GET", <<>>, "getHello">> >>)

HealthController ==
  Under(Public, <<"health">>,
    << <<"GET", <<>>, "getHealth">>, <<"GET", <<"ready">>, "getReady">> >>)

GeographyController ==
  Under(Public, <<>>,
    << <<"GET", <<"provinces">>, "listProvinces">>,
       <<"GET", <<"provinces", ID, "municipalities">>, "listMunicipalities">>,
       <<"GET", <<"municipalities">>, "listMunicipalities">> >>)

PublicCatalogController ==
  Under(Public, <<"public", "catalog">>, << <<"GET", <<>>, "getPublicCatalog">> >>)

PublicCategoriesController ==
  Under(Public, <<"public", "categories">>,
    << <<"GET", <<>>, "listPublicCategories">>, <<"GET", <<ID>>, "getPublicCategory">> >>)

PublicDepartmentsController ==
  Under(Public, <<"public", "departments">>,
    << <<"GET", <<>>, "listPublicDepartments">>, <<"GET", <<ID>>, "getPublicDepartment">> >>)

PublicProductsController ==
  Under(Public, <<"public", "products">>,
    << <<"GET", <<>>, "findStorefront">>, <<"GET", <<ID>>, "findOne">> >>)

(* The draft of the home page also asks for the storefront's secret. *)
PublicCmsController ==
  Under(Public, <<"public", "cms">>,
    << <<"GET", <<"settings">>, "getSettings">>,
       <<"GET", <<"home">>, "getPublishedHome">>,
       <<"GET", <<"home", "draft">>, "getDraftHome">>,
       <<"GET", <<"banners">>, "getPublishedHome">>,
       <<"GET", <<"services">>, "listServicesPublic">>,
       <<"GET", <<"staff">>, "listStaffPublic">>,
       <<"GET", <<"faqs">>, "listPublic">>,
       <<"GET", <<"home-notices">>, "listVisibleHomeNotices">>,
       <<"GET", <<"pages">>, "listPublishedPages">>,
       <<"GET", <<"pages", ID>>, "getPublishedPage">> >>)

PublicContactController ==
  Under(Public, <<"public", "contact">>,
    << <<"GET", <<"motives">>, "listActive">>, <<"POST", <<"messages">>, "submitMessage">> >>)

PublicFulfillmentController ==
  Under(Public, <<"public", "fulfillment">>,
    << <<"GET", <<"availability">>, "availableForClient">> >>)

OrderTrackingController ==
  Under(Public, <<"storefront", "tracking">>, << <<"GET", <<ID>>, "trackByPublicId">> >>)

(* The scheduled jobs, behind a shared secret the handler checks. *)
OrderExpiryController ==
  Under(Public, <<"internal", "orders">>, << <<"POST", <<"expire">>, "sweep">> >>)

PickupRemindersController ==
  Under(Public, <<"internal", "orders">>, << <<"POST", <<"pickup-reminders">>, "sweep">> >>)

(* The callbacks, whose signature the service checks. *)
PaymentsWebhookController ==
  Under(Public, <<"webhooks", "payments">>, << <<"POST", <<ID>>, "handleWebhook">> >>)

WebhooksController ==
  Under(Public, <<"webhooks">>,
    << <<"POST", <<"clerk", "store">>, "handleStoreWebhook">>,
       <<"POST", <<"clerk", "admin">>, "handleAdminWebhook">> >>)

(* The new member's own token must own the address: the handler checks it. *)
StorefrontMirrorController ==
  Under(Public, <<"users">>, << <<"POST", <<"storefront-mirror">>, "provisionPending">> >>)

-----------------------------------------------------------------------------
(* Dispatch *)

Controllers ==
  { AuthController, PermissionsController, UsersController, ClientsController,
    CategoriesController, DepartmentsController, ProductsController, NomenclatorsController,
    DeliveryOptionsController, StockLocationsController, InventoryController,
    FulfillmentSettingsController, FulfillmentController, RefundsController,
    OrderRefundsController, CollectionsController, PaymentMethodsController,
    DashboardController, UploadsController, OrdersController, CmsBannersController,
    CmsServicesController, CmsStaffController, CmsSettingsController, CmsFaqController,
    CmsHomeController, CmsPagesController, CmsHomeNoticesController,
    ContactMessagesController, ContactTemplatesController, CartController,
    ClientAddressesController, StorefrontOrdersController, StorefrontFulfillmentController,
    StorefrontPaymentMethodsController, AppController, HealthController,
    GeographyController, PublicCatalogController, PublicCategoriesController,
    PublicDepartmentsController, PublicProductsController, PublicCmsController,
    PublicContactController, PublicFulfillmentController, OrderTrackingController,
    OrderExpiryController, PickupRemindersController, PaymentsWebhookController,
    WebhooksController, StorefrontMirrorController }

AllRoutes == UNION {{c[k] : k \in DOMAIN c} : c \in Controllers}

(* Express: a path is taken by a route of its length whose literals it has. *)
Takes(route, verb, path) ==
  /\ route.verb = verb
  /\ Len(route.path) = Len(path)
  /\ \A k \in DOMAIN path : route.path[k] \in {ID, path[k]}

(* The first route of a controller, in registration order, takes the request. *)
AnswerOf(controller, verb, path) ==
  LET taking == {k \in DOMAIN controller : Takes(controller[k], verb, path)}
  IN  {controller[k] : k \in {i \in taking : \A j \in taking : i <= j}}

(* Whatever order the controllers are registered in. *)
Answers(verb, path) == UNION {AnswerOf(c, verb, path) : c \in Controllers}

(* The routes that are reached by their own path, and by nothing else. *)
OwnRoutes == {r \in AllRoutes : Answers(r.verb, r.path) = {r}}
=============================================================================
