--------------------------- MODULE IdempotencyRoutes ---------------------------
(***************************************************************************)
(* The POST routes that honour Idempotency-Key (idempotency.ts) and how a  *)
(* path is matched against them.  A template is the sequence of its        *)
(* segments after /v1.  A path is one too, the query string cut off; each  *)
(* of its segments is the sequence of the parts that escaped slashes       *)
(* separate in it, most often one part.  A trailing slash is an empty last *)
(* segment.                                                                *)
(***************************************************************************)
EXTENDS Integers, Sequences, FiniteSetsExt

\* A template's `:param`, which stands for any one segment.
Id == ":"

\* The text "" (the SMT backend takes no empty string).
Empty == "(empty)"

IDEMPOTENT_POST_ROUTES == {
  <<"services">>,
  <<"services", Id, "actions", Id>>,
  <<"services", Id, "backups">>,
  <<"services", Id, "snapshots">>,
  <<"services", Id, "kubeconfigs">>,
  <<"services", Id, "pools">>,
  <<"services", Id, "scale">>,
  <<"services", Id, "high-availability">>,
  <<"services", Id, "resize">>,
  <<"services", Id, "renew">>,
  <<"services", Id, "upgrade">>,
  <<"services", Id, "cancel">>,
  <<"services", Id, "ssh-keys">>,
  <<"services", Id, "ssh-keys", "library">>,
  <<"reserved-ips">>,
  <<"firewalls">>,
  <<"firewalls", Id, "rules">>,
  <<"networks">>,
  <<"volumes">>,
  <<"load-balancers">>,
  <<"load-balancers", Id, "members">>,
  <<"object-storage">>,
  <<"object-storage", "buckets">>,
  <<"object-storage", "keys">>,
  <<"domains">>,
  <<"domains", "transfers">>,
  <<"domains", Id, "renew">>,
  <<"proxies">>,
  <<"proxies", Id, "renew">>,
  <<"proxies", Id, "replacements">>,
  <<"proxies", Id, "proxy-requests">>,
  <<"proxies", Id, "auth", "whitelisted-ips">>,
  <<"billing", "credit", "top-up">>,
  <<"billing", "invoices", Id, "pay">>,
  <<"billing", "vouchers", "redeem">>,
  <<"account", "clients">>,
  <<"account", "contacts">>,
  <<"account", "ssh-keys">>,
  <<"account", "affiliate", "activate">>,
  <<"account", "affiliate", "withdraw">>,
  <<"tickets">>,
  <<"tickets", Id, "replies">>,
  <<"limits", "requests">>,
  <<"sandboxes">>,
  <<"registry">>,
  <<"registry", "credentials">>,
  <<"registry", "clusters", Id>>}

\* The compiled template: literal segments equal, `:param` any non-empty segment.
Matches(template, path) ==
  /\ Len(template) = Len(path)
  /\ \A i \in DOMAIN path : path[i] # <<Empty>> /\ (template[i] = Id \/ path[i] = <<template[i]>>)

TrimSlashes(path) == SubSeq(path, 1, Max({0} \cup {i \in DOMAIN path : path[i] # <<Empty>>}))

isIdempotentPostPath(path) ==
  \E template \in IDEMPOTENT_POST_ROUTES : Matches(template, TrimSlashes(path))
===============================================================================
