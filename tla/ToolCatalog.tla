------------------------------ MODULE ToolCatalog ------------------------------
(***************************************************************************)
(* The write tools, one row per writeTool({...}) of tools/*-write.ts: the  *)
(* method, the path, the safety kind, and whether the definition says      *)
(* `idempotent: true` and `returnsSecret`.  Paths leave out the /v1 in     *)
(* front; Id is a segment that comes from the arguments.  Descriptions,    *)
(* scopes and the schemas of the other arguments are left out.             *)
(***************************************************************************)
EXTENDS IdempotencyRoutes

Methods == {"POST", "PUT", "PATCH", "DELETE"}

GatedKinds == {"spends", "destructive", "disruptive", "sensitive"}

SafetyKinds == {"plain"} \cup GatedKinds

Row(name, method, path, kind, idempotent, secret) ==
  [name |-> name, method |-> method, path |-> path, kind |-> kind,
   idempotent |-> idempotent, secret |-> secret]

Tool(name, method, path, kind) == Row(name, method, path, kind, FALSE, FALSE)

Idempotent(tool) == Row(tool.name, tool.method, tool.path, tool.kind, TRUE, tool.secret)

ReturnsSecret(tool) == Row(tool.name, tool.method, tool.path, tool.kind, tool.idempotent, TRUE)

ServiceNameTools == {Tool("set_service_hostname", "POST", <<"services", Id, "hostname">>, "plain")}

ServiceDeployTools == {Idempotent(ReturnsSecret(Tool("deploy_service", "POST", <<"services">>, "spends")))}

ServiceSizeTools == {
  Tool("destroy_service", "DELETE", <<"services", Id>>, "destructive"),
  Idempotent(Tool("resize_service", "POST", <<"services", Id, "resize">>, "spends"))}

ServiceTermTools == {
  Idempotent(Tool("upgrade_service", "POST", <<"services", Id, "upgrade">>, "spends")),
  Idempotent(Tool("renew_service", "POST", <<"services", Id, "renew">>, "spends")),
  Idempotent(Tool("cancel_service", "POST", <<"services", Id, "cancel">>, "destructive")),
  Tool("set_service_autorenew", "PUT", <<"services", Id, "autorenew">>, "plain")}

ServiceMediaTools == {
  Idempotent(Tool("create_service_backup", "POST", <<"services", Id, "backups">>, "plain")),
  Tool("mount_service_iso", "PUT", <<"services", Id, "iso">>, "plain"),
  Tool("unmount_service_iso", "DELETE", <<"services", Id, "iso">>, "plain"),
  Tool("set_service_password", "POST", <<"services", Id, "password">>, "disruptive")}

ServicePowerTools == {
  Idempotent(Tool("start_service", "POST", <<"services", Id, "actions", "start">>, "plain")),
  Idempotent(Tool("stop_service", "POST", <<"services", Id, "actions", "stop">>, "disruptive")),
  Idempotent(Tool("reboot_service", "POST", <<"services", Id, "actions", "reboot">>, "disruptive"))}

ServiceRebuildTools == {
  Idempotent(ReturnsSecret(Tool("reinstall_service", "POST", <<"services", Id, "actions", "reinstall">>, "destructive"))),
  Idempotent(Tool("reset_service_password", "POST", <<"services", Id, "actions", "reset-password">>, "disruptive"))}

ServiceSshKeyTools == {
  Idempotent(Tool("add_service_ssh_key", "POST", <<"services", Id, "ssh-keys">>, "sensitive")),
  Idempotent(Tool("add_service_ssh_key_to_library", "POST", <<"services", Id, "ssh-keys", "library">>, "plain")),
  Tool("apply_service_ssh_key_library", "POST", <<"services", Id, "ssh-keys", "library", "apply">>, "disruptive")}

ServiceTagTools == {Tool("set_service_tags", "PUT", <<"services", Id, "tags">>, "plain")}

RegistryTools == {
  Idempotent(Tool("enable_registry", "POST", <<"registry">>, "spends")),
  Tool("set_registry_tier", "PATCH", <<"registry">>, "spends"),
  Tool("close_registry", "DELETE", <<"registry">>, "destructive")}

RegistryCredentialTools == {
  Idempotent(ReturnsSecret(Tool("create_registry_credential", "POST", <<"registry", "credentials">>, "sensitive"))),
  Tool("revoke_registry_credential", "DELETE", <<"registry", "credentials", Id>>, "destructive"),
  Tool("delete_registry_repository", "DELETE", <<"registry", "repositories", Id>>, "destructive")}

RegistryImageTools == {
  Tool("delete_registry_tag", "DELETE", <<"registry", "repositories", Id, "tags", Id>>, "destructive"),
  Tool("delete_registry_manifest", "DELETE", <<"registry", "repositories", Id, "manifests", Id>>, "destructive")}

RegistryClusterTools == {
  Idempotent(Tool("link_registry_cluster", "POST", <<"registry", "clusters", Id>>, "sensitive")),
  Tool("unlink_registry_cluster", "DELETE", <<"registry", "clusters", Id>>, "destructive"),
  Tool("rotate_registry_cluster_link", "POST", <<"registry", "clusters", Id, "rotate">>, "disruptive")}

RegistryManifestTools == {ReturnsSecret(Tool("create_registry_kubernetes_manifest", "POST", <<"registry", "docker-credentials", "kubernetes">>, "sensitive"))}

ProxyOrderTools == {
  Idempotent(ReturnsSecret(Tool("order_proxy", "POST", <<"proxies">>, "spends"))),
  Idempotent(Tool("renew_proxy", "POST", <<"proxies", Id, "renew">>, "spends")),
  Tool("set_proxy_auto_renew", "POST", <<"proxies", Id, "auto-renew">>, "plain")}

ProxyAuthTools == {
  Tool("cancel_proxy", "POST", <<"proxies", Id, "cancel">>, "destructive"),
  Tool("set_proxy_auth_method", "PATCH", <<"proxies", Id, "auth">>, "disruptive"),
  Tool("set_proxy_credentials", "PUT", <<"proxies", Id, "auth", "credentials">>, "disruptive")}

ProxyWhitelistTools == {
  Idempotent(Tool("add_proxy_whitelisted_ip", "POST", <<"proxies", Id, "auth", "whitelisted-ips">>, "plain")),
  Tool("remove_proxy_whitelisted_ip", "DELETE", <<"proxies", Id, "auth", "whitelisted-ips", Id>>, "destructive")}

ProxyRequestTools == {
  Idempotent(Tool("request_proxy_replacement", "POST", <<"proxies", Id, "replacements">>, "disruptive")),
  Idempotent(Tool("create_proxy_request", "POST", <<"proxies", Id, "proxy-requests">>, "plain")),
  Tool("delete_proxy_request", "DELETE", <<"proxies", Id, "proxy-requests", Id>>, "destructive")}

ProxyRotationTools == {
  Tool("set_proxy_auto_rotation", "PUT", <<"proxies", Id, "auto-rotation">>, "disruptive"),
  Tool("rotate_proxy", "POST", <<"proxies", Id, "rotate">>, "disruptive")}

DomainOrderTools == {
  Idempotent(Tool("register_domain", "POST", <<"domains">>, "spends")),
  Idempotent(Tool("transfer_domain", "POST", <<"domains", "transfers">>, "spends"))}

DomainTermTools == {
  Idempotent(Tool("renew_domain", "POST", <<"domains", Id, "renew">>, "spends")),
  Tool("set_domain_nameservers", "PUT", <<"domains", Id, "nameservers">>, "disruptive")}

DomainRecordTools == {
  Tool("set_domain_contacts", "PUT", <<"domains", Id, "contacts">>, "sensitive"),
  Tool("set_domain_dns", "PUT", <<"domains", Id, "dns">>, "disruptive")}

DomainManageTools == {Tool("manage_domain", "POST", <<"domains", Id, "manage">>, "sensitive")}

FirewallTools == {
  Idempotent(Tool("create_firewall", "POST", <<"firewalls">>, "plain")),
  Tool("delete_firewall", "DELETE", <<"firewalls", Id>>, "destructive"),
  Idempotent(Tool("add_firewall_rule", "POST", <<"firewalls", Id, "rules">>, "plain")),
  Tool("delete_firewall_rule", "DELETE", <<"firewalls", Id, "rules", Id>>, "destructive")}

FirewallAttachTools == {
  Tool("attach_firewall", "POST", <<"firewalls", Id, "attach">>, "plain"),
  Tool("detach_firewall", "POST", <<"firewalls", Id, "detach">>, "disruptive")}

LoadBalancerTools == {
  Idempotent(Tool("create_load_balancer", "POST", <<"load-balancers">>, "spends")),
  Tool("delete_load_balancer", "DELETE", <<"load-balancers", Id>>, "destructive"),
  Idempotent(Tool("add_load_balancer_member", "POST", <<"load-balancers", Id, "members">>, "plain")),
  Tool("remove_load_balancer_member", "DELETE", <<"load-balancers", Id, "members", Id>>, "destructive")}

BucketTools == {
  Idempotent(Tool("enable_object_storage", "POST", <<"object-storage">>, "spends")),
  Tool("disable_object_storage", "DELETE", <<"object-storage">>, "destructive"),
  Idempotent(Tool("create_bucket", "POST", <<"object-storage", "buckets">>, "spends")),
  Tool("update_bucket", "PATCH", <<"object-storage", "buckets", Id>>, "sensitive")}

BucketKeyTools == {
  Tool("delete_bucket", "DELETE", <<"object-storage", "buckets", Id>>, "destructive"),
  Idempotent(ReturnsSecret(Tool("create_object_storage_key", "POST", <<"object-storage", "keys">>, "sensitive"))),
  Tool("delete_object_storage_key", "DELETE", <<"object-storage", "keys", Id>>, "destructive")}

VolumeTools == {
  Idempotent(Tool("create_volume", "POST", <<"volumes">>, "spends")),
  Tool("delete_volume", "DELETE", <<"volumes", Id>>, "destructive"),
  Tool("attach_volume", "POST", <<"volumes", Id, "attach">>, "plain"),
  Tool("detach_volume", "POST", <<"volumes", Id, "detach">>, "disruptive")}

NetworkTools == {
  Idempotent(Tool("create_network", "POST", <<"networks">>, "plain")),
  Tool("delete_network", "DELETE", <<"networks", Id>>, "destructive"),
  Tool("attach_network_vm", "POST", <<"networks", Id, "vms">>, "disruptive")}

ReservedIpTools == {
  Idempotent(Tool("reserve_ip", "POST", <<"reserved-ips">>, "spends")),
  Tool("release_reserved_ip", "DELETE", <<"reserved-ips", Id>>, "destructive"),
  Tool("attach_reserved_ip", "POST", <<"reserved-ips", Id, "attach">>, "plain"),
  Tool("detach_reserved_ip", "POST", <<"reserved-ips", Id, "detach">>, "disruptive")}

ClusterPoolTools == {
  Idempotent(Tool("set_cluster_scale", "POST", <<"services", Id, "scale">>, "disruptive")),
  Idempotent(Tool("add_cluster_pool", "POST", <<"services", Id, "pools">>, "spends")),
  Tool("update_cluster_pool", "PATCH", <<"services", Id, "pools", Id>>, "disruptive"),
  Tool("delete_cluster_pool", "DELETE", <<"services", Id, "pools", Id>>, "destructive")}

ClusterAccessTools == {
  Tool("rename_cluster_pool", "POST", <<"services", Id, "pools", Id, "rename">>, "disruptive"),
  Idempotent(Tool("enable_cluster_ha", "POST", <<"services", Id, "high-availability">>, "spends")),
  Idempotent(ReturnsSecret(Tool("create_cluster_kubeconfig", "POST", <<"services", Id, "kubeconfigs">>, "sensitive"))),
  Tool("revoke_cluster_kubeconfig", "DELETE", <<"services", Id, "kubeconfigs", Id>>, "destructive")}

AccountTools == {
  Tool("update_account", "PATCH", <<"account">>, "sensitive"),
  Idempotent(Tool("add_account_ssh_key", "POST", <<"account", "ssh-keys">>, "plain")),
  Tool("delete_account_ssh_key", "DELETE", <<"account", "ssh-keys", Id>>, "destructive")}

AccountContactTools == {
  Tool("resend_email_verification", "POST", <<"account", "verify-email", "resend">>, "plain"),
  Idempotent(Tool("manage_account_contact", "POST", <<"account", "contacts">>, "sensitive")),
  Tool("create_affiliate_link", "POST", <<"account", "affiliate", "link">>, "plain")}

BillingTools == {
  Tool("set_billing_alert", "PUT", <<"billing", "alert">>, "plain"),
  Tool("delete_billing_alert", "DELETE", <<"billing", "alert">>, "destructive"),
  Idempotent(Tool("redeem_voucher", "POST", <<"billing", "vouchers", "redeem">>, "plain"))}

TicketTools == {
  Idempotent(Tool("create_ticket", "POST", <<"tickets">>, "sensitive")),
  Idempotent(Tool("reply_ticket", "POST", <<"tickets", Id, "replies">>, "sensitive")),
  Tool("close_ticket", "POST", <<"tickets", Id, "close">>, "plain")}

LimitTools == {Idempotent(Tool("request_quota_increase", "POST", <<"limits", "requests">>, "sensitive"))}

SnapshotTools == {
  Idempotent(Tool("create_snapshot", "POST", <<"services", Id, "snapshots">>, "spends")),
  Tool("delete_snapshot", "DELETE", <<"snapshots", Id>>, "destructive"),
  Tool("restore_snapshot", "POST", <<"services", Id, "restore">>, "destructive")}

SmtpTools == {Tool("request_smtp_unblock", "POST", <<"services", Id, "smtp", "unblock-request">>, "sensitive")}

ReverseDnsTools == {
  Tool("set_service_rdns", "PUT", <<"services", Id, "rdns">>, "disruptive"),
  Tool("delete_service_rdns", "DELETE", <<"services", Id, "rdns">>, "disruptive")}

SandboxTools == {
  Idempotent(Tool("create_sandbox", "POST", <<"sandboxes">>, "spends")),
  Tool("delete_sandbox", "DELETE", <<"sandboxes", Id>>, "destructive")}

SandboxRunTools == {
  Tool("run_sandbox_code", "POST", <<"sandboxes", Id, "run_code">>, "plain"),
  Tool("run_sandbox_command", "POST", <<"sandboxes", Id, "commands">>, "plain"),
  Tool("write_sandbox_file", "PUT", <<"sandboxes", Id, "files">>, "plain")}

\* Every write tool of TOOLS.
WriteTools ==
  UNION {ServiceNameTools, ServiceDeployTools, ServiceSizeTools, ServiceTermTools, ServiceMediaTools,
         ServicePowerTools, ServiceRebuildTools, ServiceSshKeyTools, ServiceTagTools, RegistryTools,
         RegistryCredentialTools, RegistryImageTools, RegistryClusterTools, RegistryManifestTools, ProxyOrderTools,
         ProxyAuthTools, ProxyWhitelistTools, ProxyRequestTools, ProxyRotationTools, DomainOrderTools,
         DomainTermTools, DomainRecordTools, DomainManageTools, FirewallTools, FirewallAttachTools,
         LoadBalancerTools, BucketTools, BucketKeyTools, VolumeTools, NetworkTools,
         ReservedIpTools, ClusterPoolTools, ClusterAccessTools, AccountTools, AccountContactTools,
         BillingTools, TicketTools, LimitTools, SnapshotTools, SmtpTools,
         ReverseDnsTools, SandboxTools, SandboxRunTools}
================================================================================
