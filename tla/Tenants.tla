------------------------------ MODULE Tenants ------------------------------
(***************************************************************************)
(* The tenant a request context carries (pkg/storage/tenant.go, query.go).  *)
(***************************************************************************)

CONSTANT NoTenant   \* the empty tenant id

\* storage.TenantScope: a context without tenant sees the rows of every tenant.
InScope(ctx, t) == ctx = NoTenant \/ t = ctx

\* TenantFromContext fills in the tenant of a record that has none.
DefaultTenant(t, ctx) == IF t = NoTenant THEN ctx ELSE t
=============================================================================
