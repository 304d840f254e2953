CONSTANTS
    Tenant = {default, acme}
    Default = default
    Slug = {default, acme, nobody}
    Name = {onboarding}
    Web = {t1}
    Worker = {w1}
    Dispatcher = {d1}
    Shell = {s1}
    Ask = {"define", "start", "create trigger", "delete trigger", "upsert",
           "stream"}
    NoTenant = NoTenant
    NoName = NoName
    MaxVersion = 2
    MaxRuns = 1
    MaxChanges = 1
    MaxTriggers = 2
SPECIFICATION Spec
INVARIANTS TenantsApart VersionsGapless
CHECK_DEADLOCK FALSE
