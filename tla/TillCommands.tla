---------------------------- MODULE TillCommands ----------------------------
(***************************************************************************)
(* The scripts of the till's calls: one definition per source file or part *)
(* of it, one entry per command (lib.rs, generate_handler!) and worker.    *)
(*                                                                         *)
(* A script is the longest way through its call: what a condition leaves   *)
(* out (no printer, nothing to send) only takes fewer mutexes.  What is    *)
(* read and written under the connection is a matter of the other modules. *)
(* Mutexes that are let go in the statement that takes them and take       *)
(* nothing in it (printer health, logos, update status, last errors, the   *)
(* session slot itself) cannot be waited for in a ring and are left out.   *)
(***************************************************************************)
EXTENDS CommandLayer, TLC

\* Who may do what: 1 for a cashier, 2 for a manager, 3 for the owner.
Least(permission) ==
  CASE permission \in {"CatalogView", "CustomerLookup", "SaleCreate", "ReceiptPrint",
                       "DrawerKick", "LoyaltyRedeem"} -> 1
    [] permission \in {"SaleRefund", "SaleVoid", "DiscountApply", "ShiftOpen", "ShiftClose",
                       "ReceiptReprint", "ReportView", "ReportZRun", "InventoryView"} -> 2
    [] permission \in {"CatalogManage", "InventoryAdjust", "CustomerManage", "AnalyticsView",
                       "AuditView", "UserManage", "SettingsManage"} -> 3

MutexRank == [round |-> 0, network |-> 1, printer |-> 1, license |-> 2, state |-> 2,
              server |-> 2, conn |-> 3, runtime |-> 4, transport |-> 5]

-----------------------------------------------------------------------------
(* Pieces.                                                                  *)

Do(what) == <<[do |-> what, on |-> 0]>>
Brief(l) == <<[do |-> "pass", on |-> l]>>
Device(d) == <<[do |-> "out", on |-> d]>>
Held(l, body) == <<[do |-> "take", on |-> l]>> \o body \o <<[do |-> "give", on |-> l]>>

\* Database::conn, held for a statement or a transaction.
Query == Brief("conn")

\* authorize: the licence gives the database, then the session is checked.
Gate(permission) == Brief("license") \o <<[do |-> "may", on |-> Least(permission)]>>

Also(permission) == <<[do |-> "can", on |-> Least(permission)]>>

\* Authorized::actor: the device id is read from the database.
Actor == Query
Nudge == Brief("transport")

View(permission) == Gate(permission) \o Query
Recorded == Held("conn", Do("audit"))
Change(permission) == Gate(permission) \o Actor \o Recorded \o Nudge
Quiet(permission) == Gate(permission) \o Actor \o Query \o Nudge

-----------------------------------------------------------------------------
(* Services.                                                                *)

\* PrintService::publish: the status is read under the connection.
Publish == Query

\* mutant: the receipts are printed with the connection they were rendered under
SendUnderLock == Held("conn", Device("printer")) \o Query \o Publish
\* PrintService::drain: render under the lock, print without it, note each job.
Drain == Query \o Device("printer") \o Query \o Publish
DrainKitchen == Query \o Device("printer") \o Query \o Publish \o Query
PrintOut == Query \o Device("printer") \o Publish

\* SyncEngine::status and set_state.
EngineStatus == Query \o Held("runtime", Brief("transport"))
SetState == Brief("runtime") \o EngineStatus

\* SyncEngine::run with a remote server, or with the till's own hub tables.
Exchange(remote) ==
  IF remote THEN Query \o Device("network") \o Query
            ELSE Query \o Brief("license") \o Query \o Query
Pull(remote) == Brief("transport") \o Exchange(remote)
EngineRun(remote) ==
  Held("round", Brief("transport") \o SetState \o Exchange(remote) \o Pull(remote)
                \o Query \o SetState \o EngineStatus)

\* LicenseService: evaluate and activate under its mutex, cloud_check without it.
Evaluate == Held("license", Query)
CloudCheck == Evaluate \o Device("network") \o Evaluate

\* sync::round.  After a 401 or 403 the licence is checked with the cloud and the
\* round tried once more: RoundAgain, which has nothing in hand when it begins and
\* is a script of its own.
Round(remote) == Brief("license") \o Brief("license") \o EngineRun(remote)
RoundAgain == CloudCheck \o Brief("license") \o EngineRun(TRUE)

\* SyncEngine::set_transport waits for a running round.
SetTransport == Held("round", Brief("transport") \o Brief("runtime") \o Nudge)

\* LanService::apply (as a hub) and status.
LanSettings == Query
Apply == LanSettings \o Query \o Query \o Query \o Brief("server") \o SetTransport
LanStatus == LanSettings \o Query \o Held("server", Query)

\* BackupService::create and status.
Backup == Query \o Query \o Query \o Query \o Brief("state")
BackupStatus == Query \o Held("state", Query)

-----------------------------------------------------------------------------
(* Commands.                                                                *)

\* mutant: the actor is resolved with the connection in hand
PrintReceiptLate ==
  Gate("ReceiptPrint") \o Held("conn", Also("ReceiptReprint") \o Actor \o Do("audit")) \o Drain \o Query
\* A copy asks for one permission more, with the connection in hand.
PrintReceipt ==
  Gate("ReceiptPrint") \o Actor \o Held("conn", Also("ReceiptReprint") \o Do("audit")) \o Drain \o Query

Complete == Query \o PrintOut \o Drain \o DrainKitchen \o Query \o Query \o Query

\* A sale; with discount rules that are asked for, one permission more.
Sale == Recorded \o Complete \o Nudge
Discounted == Gate("SaleCreate") \o Also("DiscountApply") \o Sale

SaleCommands ==
  "quote_transaction" :> Gate("SaleCreate") \o Also("DiscountApply") \o Also("CustomerLookup") \o Query
  @@ "create_transaction" :> Gate("SaleCreate") \o Sale
  @@ "create_discounted" :> Discounted
  @@ "print_receipt" :> PrintReceipt
  @@ "kick_cash_drawer" :> Gate("DrawerKick") \o Actor \o Recorded \o PrintOut

HistoryCommands ==
  "list_transactions" :> View("ReceiptReprint")
  @@ "get_transaction" :> View("ReceiptReprint")
  @@ "quote_refund" :> View("SaleRefund")
  @@ "refund_transaction" :> Gate("SaleRefund") \o Actor \o Recorded \o Complete \o Nudge
  @@ "void_transaction" :> Gate("SaleVoid") \o Actor \o Recorded \o Complete \o Nudge

\* What was sent to the kitchen is called off by one who may void (can_void), with
\* the connection in hand.
CalledOff ==
  Gate("SaleCreate") \o Actor \o Held("conn", Also("SaleVoid") \o Do("audit")) \o DrainKitchen \o Nudge

\* update_sent and cancel_sent: some of the order was sent to the kitchen.
OrderCommands ==
  "list_open_orders" :> View("SaleCreate")
  @@ "open_order" :> Quiet("SaleCreate")
  @@ "update_open_order" :> Gate("SaleCreate") \o Actor \o Query \o DrainKitchen \o Nudge
  @@ "update_sent" :> CalledOff
  @@ "split_order_line" :> Gate("SaleCreate") \o Query \o Nudge
  @@ "fire_course" :> Gate("SaleCreate") \o Actor \o Query \o Query \o DrainKitchen \o Query \o Nudge
  @@ "cancel_open_order" :> Gate("SaleCreate") \o Actor \o Recorded \o DrainKitchen \o Nudge
  @@ "cancel_sent" :> CalledOff
  @@ "pay_open_order" :> Gate("SaleCreate") \o Sale
  @@ "pay_discounted" :> Discounted

KitchenCommands ==
  "kitchen_display_status" :> View("SaleCreate")
  @@ "set_kitchen_display" :> Gate("SettingsManage") \o Query \o Nudge \o Query
  @@ "list_kitchen_tickets" :> View("SaleCreate")
  @@ "bump_kitchen_ticket" :> View("SaleCreate") \o Nudge
  @@ "set_kitchen_item_done" :> View("SaleCreate") \o Nudge
  @@ "restore_window" :> Brief("license") \o Query \o Nudge

ReportCommands ==
  "get_x_report" :> View("ReportView")
  @@ "run_z_report" :> Gate("ReportZRun") \o Recorded \o Query \o Query \o PrintOut \o Nudge
  @@ "list_z_reports" :> View("ReportView")
  @@ "get_z_report" :> View("ReportView")
  @@ "print_report" :> View("ReportView") \o Query \o Query \o PrintOut
  @@ "list_shifts" :> View("ReportView")
  @@ "get_dashboard_metrics" :> View("AnalyticsView")
  @@ "list_audit_log" :> View("AuditView")

ShiftCommands ==
  "current_shift" :> View("SaleCreate")
  @@ "open_shift" :> Change("ShiftOpen")
  @@ "close_shift" :> Change("ShiftClose")
  @@ "background_backup" :> Backup

CatalogCommands ==
  "get_products" :> View("CatalogView")
  @@ "get_categories" :> View("CatalogView")
  @@ "save_product" :> Change("CatalogManage")
  @@ "load_sample_catalog" :> Change("CatalogManage")

StockCommands ==
  "adjust_stock" :> Change("InventoryAdjust")
  @@ "print_product_labels" :> View("InventoryView") \o PrintOut

\* Every save and delete of commands/menu.rs goes through edit.
MenuEdit == Gate("CatalogManage") \o Actor \o Recorded \o Nudge

MenuCommands ==
  "get_menu" :> View("CatalogView")
  @@ "save_modifier_group" :> MenuEdit @@ "delete_modifier_group" :> MenuEdit
  @@ "set_product_modifier_groups" :> MenuEdit
  @@ "save_combo" :> MenuEdit @@ "delete_combo" :> MenuEdit
  @@ "save_dining_table" :> MenuEdit @@ "delete_dining_table" :> MenuEdit

DiscountCommands ==
  "list_discount_rules" :> View("SaleCreate")
  @@ "save_discount_rule" :> Change("CatalogManage")
  @@ "delete_discount_rule" :> Change("CatalogManage")

\* save_customer registers a customer; save_existing changes one.
CustomerCommands ==
  "search_customers" :> View("CustomerLookup")
  @@ "get_customer" :> View("CustomerLookup")
  @@ "save_customer" :> Change("CustomerLookup")
  @@ "save_existing" :> Change("CustomerManage")
  @@ "delete_customer" :> Change("CustomerManage")
  @@ "adjust_loyalty_points" :> Change("CustomerManage")
  @@ "get_loyalty_settings" :> View("SaleCreate")
  @@ "save_loyalty_settings" :> Change("SettingsManage")

MembershipCommands ==
  "list_membership_plans" :> View("CustomerLookup")
  @@ "save_membership_plan" :> Change("CustomerManage")
  @@ "delete_membership_plan" :> Change("CustomerManage")
  @@ "list_members" :> View("CustomerLookup")
  @@ "customer_memberships" :> View("CustomerLookup")
  @@ "grant_membership" :> Change("CustomerManage")
  @@ "cancel_membership" :> Change("CustomerManage")

UserCommands ==
  "list_users" :> View("UserManage")
  @@ "create_user" :> Change("UserManage")

SessionCommands ==
  "session_status" :> Brief("license") \o Do("peek") \o Query \o Brief("transport") \o Round(TRUE) \o Query
  @@ "list_login_users" :> Brief("license") \o Query
  @@ "bootstrap_owner" :> Brief("license") \o Query \o Do("enter") \o Nudge
  @@ "login" :> Brief("license") \o Query \o Do("enter") \o Nudge
  @@ "logout" :> Do("peek") \o Brief("license") \o Recorded \o Nudge \o Do("leave")
  @@ "logout_unlicensed" :> Do("peek") \o Brief("license") \o Do("leave")

HardwareCommands ==
  "printer_status" :> View("CatalogView")
  @@ "list_printers" :> Gate("SettingsManage") \o Device("printer")
  @@ "get_printer_settings" :> View("SettingsManage")
  @@ "save_printer_settings" :> Gate("SettingsManage") \o Actor \o Recorded \o Drain \o DrainKitchen \o Query
  @@ "test_printer" :> View("SettingsManage") \o Device("printer")

LicenseCommands ==
  "verify_license" :> Evaluate
  @@ "activate_license" :> Evaluate
  @@ "activate_license_file" :> Evaluate
  @@ "cloud_check" :> CloudCheck

SyncCommands ==
  "sync_to_cloud" :> Gate("CatalogView") \o Round(TRUE)
  @@ "sync_own_hub" :> Gate("CatalogView") \o Round(FALSE)
  @@ "round_again" :> RoundAgain
  @@ "sync_status" :> Gate("CatalogView") \o EngineStatus

\* save_lan_settings keeps the connection to write the audit entry, and reads
\* the settings it replaces through the database it holds.
SaveLanSettings ==
  Gate("SettingsManage") \o Actor \o Held("conn", LanSettings \o Do("audit")) \o Apply \o LanStatus \o Nudge

LanCommands ==
  "lan_status" :> Gate("SettingsManage") \o LanStatus
  @@ "save_lan_settings" :> SaveLanSettings
  @@ "discover_hubs" :> Gate("SettingsManage") \o Device("network")
  @@ "test_hub" :> Gate("SettingsManage") \o Device("network")
  @@ "new_hub_code" :> Gate("SettingsManage") \o Query \o Apply \o LanStatus

\* save_backup_settings does the same.
SaveBackupSettings ==
  Gate("SettingsManage") \o Actor \o Held("conn", Query \o Do("audit")) \o BackupStatus

BackupCommands ==
  "backup_status" :> Gate("SettingsManage") \o BackupStatus
  @@ "backup_now" :> Gate("ShiftClose") \o Backup
  @@ "save_backup_settings" :> SaveBackupSettings
  @@ "set_backup_password" :> Gate("SettingsManage") \o Query \o Actor \o Recorded \o Backup \o BackupStatus
  @@ "list_backups_in" :> Gate("SettingsManage")
  @@ "restore_backup" :> Brief("license") \o Gate("SettingsManage") \o Backup \o Actor \o Recorded
  @@ "restore_halted" :> Brief("license")

UpdateCheck == Device("network") \o Brief("license") \o Query

UpdateCommands ==
  "update_status" :> Gate("SaleCreate")
  @@ "check_for_updates" :> Gate("SaleCreate") \o UpdateCheck
  @@ "install_update" :> Gate("ShiftClose") \o Backup
  @@ "dismiss_update_notice" :> View("SaleCreate")
  @@ "find_update_files" :> Gate("ShiftClose")
  @@ "inspect_update_file" :> Gate("ShiftClose")
  @@ "install_update_file" :> Gate("ShiftClose") \o Backup \o Query

-----------------------------------------------------------------------------
(* Workers.                                                                 *)

LicenseWorker == "license_worker" :> CloudCheck
BackupWorker == "backup_worker" :> Brief("license") \o Query \o Brief("state") \o Query \o Backup
SyncWorker == "sync_worker" :> Brief("license") \o Apply \o Nudge \o Round(TRUE)
PrintWorker == "print_worker" :> Brief("license") \o Drain \o DrainKitchen
UpdateWorker == "update_worker" :> Brief("license") \o Query \o UpdateCheck
HubThread == "hub_thread" :> Brief("license") \o Query

Scripts ==
  SaleCommands @@ HistoryCommands @@ OrderCommands @@ KitchenCommands @@ ReportCommands
  @@ ShiftCommands @@ CatalogCommands @@ StockCommands @@ MenuCommands @@ DiscountCommands
  @@ CustomerCommands @@ MembershipCommands @@ UserCommands @@ SessionCommands
  @@ HardwareCommands @@ LicenseCommands @@ SyncCommands @@ LanCommands @@ BackupCommands
  @@ UpdateCommands @@ LicenseWorker @@ BackupWorker @@ SyncWorker @@ PrintWorker
  @@ UpdateWorker @@ HubThread

\* The two calls that wait for themselves (save_hangs).
Hanging == {"save_lan_settings", "save_backup_settings"}
=============================================================================
