\* The comment on bustList, which the cache does not bear out.
SPECIFICATION MCSpec
CONSTANTS
    s1 = s1
    u1 = u1
    FirstSettings <- TwoSettings
    SeededServices <- OneService
    SeededUsers <- OneUser
    Handlers = {h1, h2}
    Null = Null
    Workloads <- ListMix
    MaxCalls = 3
    SettingKeys = {"hotel_name", "check_in_time", "facebook_url", "tax_settings"}
    Texts = {"a", "b"}
    Rates = {0, 1}
    ServiceIds = {s1, s2}
    Names = {"a", "b"}
    UserIds = {u1, u2, u3}
    Emails = {"m", "n"}
    Roles = {"USER", "ADMIN"}
    Owners = {o1, o2}
    InquiryIds = {i1, i2}
    MessageIds = {m1, m2}
    Places = {"x", "y"}
    ContentIds = {c1, c2}
    MediaIds = {d1, d2}
    ArticleIds = {a1}
    RowIds = {1, 2, 3}
    SeededRows <- TwoRows
    PageSize = 1
    Schema <- SmallSchema
    OldSchemas <- EarlierSchemas
    Unaddable <- PriceIsRequired
CHECK_DEADLOCK FALSE
INVARIANTS
    ListsAreCleared
