------------------------------ MODULE ReadCatalog ------------------------------
(***************************************************************************)
(* The read tools, one row per readList, readOne, readTool or              *)
(* defineReadTool of tools/*.ts: the path and whether the definition says  *)
(* `returnsSecret`.  All of them are GET but the few that ask with a body. *)
(* Query strings are left out: what goes in them is encoded and reaches no *)
(* other route.                                                            *)
(***************************************************************************)
EXTENDS ToolCatalog

Read(name, path) == Tool(name, "GET", path, "read")

\* A question that takes a POST and changes nothing.
Asking(tool) == Row(tool.name, "POST", tool.path, tool.kind, tool.idempotent, tool.secret)

ServiceReads == {
  Read("list_services", <<"services">>),
  Read("get_service", <<"services", Id>>),
  Read("get_service_metrics", <<"services", Id, "metrics">>),
  Read("list_backups", <<"services", Id, "backups">>),
  Read("get_provisioning_state", <<"services", Id, "provisioning">>)}

ServiceOptionReads == {
  Read("list_os_templates", <<"services", Id, "os-templates">>),
  Read("list_upgrade_options", <<"services", Id, "upgrade">>),
  Read("get_service_iso", <<"services", Id, "iso">>),
  Read("list_service_ssh_key_library", <<"services", Id, "ssh-keys", "library">>),
  Read("get_service_autorenew", <<"services", Id, "autorenew">>)}

OrderChecks == {Asking(Read("check_order", <<"services", "preflight">>))}

ClusterReads == {
  Read("get_cluster_scale", <<"services", Id, "scale">>),
  Read("list_cluster_pools", <<"services", Id, "pools">>),
  Read("list_cluster_kubeconfigs", <<"services", Id, "kubeconfigs">>),
  ReturnsSecret(Read("get_cluster_kubeconfig", <<"services", Id, "kubeconfig">>)),
  ReturnsSecret(Read("download_cluster_kubeconfig", <<"services", Id, "kubeconfigs", Id, "download">>))}

LimitReads == {
  Read("get_quota_limits", <<"limits">>),
  Asking(Read("estimate_limits", <<"limits", "estimate">>)),
  Read("list_quota_requests", <<"limits", "requests">>)}

AccountReads == {
  Read("get_account", <<"account">>),
  Read("list_ssh_keys", <<"services", Id, "ssh-keys">>),
  Read("get_account_limits", <<"account", "limits">>),
  Read("list_account_clients", <<"account", "clients">>),
  Read("get_affiliate", <<"account", "affiliate">>),
  Read("get_two_factor_status", <<"account", "two-factor">>),
  Read("list_account_ssh_keys", <<"account", "ssh-keys">>),
  Read("get_account_activity", <<"account", "activity">>),
  Read("list_account_emails", <<"account", "emails">>),
  Read("list_account_contacts", <<"account", "contacts">>)}

InvoiceReads == {
  Read("list_invoices", <<"billing", "invoices">>),
  Read("get_invoice", <<"billing", "invoices", Id>>),
  Read("get_credit_balance", <<"billing", "credit">>),
  Read("get_credit_ledger", <<"billing", "credit", "ledger">>),
  Read("get_invoice_pay_preview", <<"billing", "invoices", Id, "pay-preview">>)}

BillingReads == {
  Read("list_payment_methods", <<"billing", "payment-methods">>),
  Read("get_billing_campaign", <<"billing", "campaign">>),
  Read("get_bonus_balance", <<"billing", "bonus">>),
  Read("get_bonus_ledger", <<"billing", "bonus", "ledger">>),
  Read("get_billing_alert", <<"billing", "alert">>),
  Read("get_billing_state", <<"billing", "state">>)}

ProductReads == {
  Read("list_catalog_products", <<"catalog", "products">>),
  Read("get_catalog_plan", <<"catalog", "products", Id>>),
  Read("list_regions", <<"catalog", "regions">>),
  Read("list_images", <<"catalog", "images">>),
  Read("get_product_details", <<"catalog", "products", Id, "details">>)}

CatalogReads == {
  Read("list_prepurchase_os_templates", <<"catalog", "products", Id, "os-templates">>),
  Read("list_catalog_listings", <<"catalog", "listings", Id>>),
  Read("list_kubernetes_versions", <<"catalog", "kubernetes-versions">>)}

RegistryReads == {
  Read("get_registry", <<"registry">>),
  Read("list_registry_tiers", <<"registry", "tiers">>),
  Read("suggest_registry_handle", <<"registry", "handles", "suggest">>),
  Read("list_registry_credentials", <<"registry", "credentials">>),
  Read("list_registry_repositories", <<"registry", "repositories">>)}

RegistryImageReads == {
  Read("get_registry_repository", <<"registry", "repositories", Id>>),
  Read("list_registry_tag_vulnerabilities", <<"registry", "repositories", Id, "tags", Id, "vulnerabilities">>),
  Read("list_registry_clusters", <<"registry", "clusters">>)}

ProxyReads == {
  Read("list_proxies", <<"proxies">>),
  Read("get_proxy_catalog", <<"proxies", "catalog">>),
  Read("list_gb_residential_countries", <<"proxies", "residential", "countries">>),
  Read("list_gb_rotation_intervals", <<"proxies", "residential", "rotation-intervals">>),
  Read("get_proxy", <<"proxies", Id>>),
  ReturnsSecret(Read("get_proxy_list", <<"proxies", Id, "proxy-list">>)),
  ReturnsSecret(Read("get_proxy_auth", <<"proxies", Id, "auth">>)),
  Read("list_proxy_requests", <<"proxies", Id, "proxy-requests">>),
  Read("get_proxy_replacements", <<"proxies", Id, "replacements">>),
  ReturnsSecret(Read("get_proxy_request_list", <<"proxies", Id, "proxy-requests", Id, "proxy-list">>))}

ProxyChecks == {
  Read("get_proxy_bandwidth", <<"proxies", Id, "bandwidth">>),
  Asking(Read("check_proxy", <<"proxies", Id, "check">>)),
  Read("list_proxy_replacement_locations", <<"proxies", Id, "replacements", "locations">>),
  Read("get_proxy_auto_rotation", <<"proxies", Id, "auto-rotation">>)}

SandboxReads == {
  Read("list_sandboxes", <<"sandboxes">>),
  Read("list_sandbox_templates", <<"sandboxes", "templates">>),
  Read("get_sandbox", <<"sandboxes", Id>>),
  Read("read_sandbox_file", <<"sandboxes", Id, "files">>),
  Read("get_sandbox_logs", <<"sandboxes", Id, "logs">>)}

ApiAccessReads == {Read("list_api_access", <<"api-access">>)}

DomainReads == {
  Read("list_domains", <<"domains">>),
  Read("get_domain", <<"domains", Id>>),
  Read("check_domain_availability", <<"domains", "availability">>),
  Read("get_tld_pricing", <<"domains", "tld-pricing">>),
  Read("get_domain_nameservers", <<"domains", Id, "nameservers">>),
  Read("get_domain_contacts", <<"domains", Id, "contacts">>),
  Read("get_domain_dns", <<"domains", Id, "dns">>),
  Read("get_domain_management", <<"domains", Id, "manage">>)}

InfraReads == {
  Read("list_volumes", <<"volumes">>),
  Read("get_volume", <<"volumes", Id>>),
  Read("list_networks", <<"networks">>),
  Read("get_network", <<"networks", Id>>),
  Read("list_load_balancers", <<"load-balancers">>),
  Read("get_load_balancer", <<"load-balancers", Id>>),
  Read("list_load_balancer_members", <<"load-balancers", Id, "members">>),
  Read("list_reserved_ips", <<"reserved-ips">>),
  Read("list_firewalls", <<"firewalls">>),
  Read("get_firewall", <<"firewalls", Id>>)}

StorageReads == {
  Read("get_object_storage", <<"object-storage">>),
  Read("list_object_storage_regions", <<"object-storage", "regions">>),
  Read("get_object_storage_usage", <<"object-storage", "usage">>),
  Read("list_buckets", <<"object-storage", "buckets">>),
  Read("get_bucket", <<"object-storage", "buckets", Id>>),
  Read("get_bucket_usage", <<"object-storage", "buckets", Id, "usage">>),
  Read("list_object_storage_keys", <<"object-storage", "keys">>)}

OrderReads == {
  Read("list_orders", <<"orders">>),
  Read("get_order", <<"orders", Id>>)}

ReverseDnsReads == {Read("get_service_rdns", <<"services", Id, "rdns">>)}

SmtpReads == {Read("get_service_smtp", <<"services", Id, "smtp">>)}

SnapshotReads == {
  Read("list_snapshots", <<"snapshots">>),
  Read("list_service_snapshots", <<"services", Id, "snapshots">>),
  Read("get_snapshot", <<"snapshots", Id>>)}

TicketReads == {
  Read("list_tickets", <<"tickets">>),
  Read("get_ticket", <<"tickets", Id>>),
  Read("list_ticket_departments", <<"tickets", "departments">>)}

ReadTools ==
  ServiceReads \cup ServiceOptionReads \cup OrderChecks \cup ClusterReads
    \cup LimitReads \cup AccountReads \cup InvoiceReads \cup BillingReads
    \cup ProductReads \cup CatalogReads \cup RegistryReads \cup RegistryImageReads
    \cup ProxyReads \cup ProxyChecks \cup SandboxReads \cup ApiAccessReads
    \cup DomainReads \cup InfraReads \cup StorageReads \cup OrderReads
    \cup ReverseDnsReads \cup SmtpReads \cup SnapshotReads \cup TicketReads

===============================================================================
