SPECIFICATION OfficeSpec
CONSTANTS
    u1 = u1
    u2 = u2
    r1 = r1
    r2 = r2
    c1 = c1
    c2 = c2
    f1 = f1
    f2 = f2
    d1 = d1
    d2 = d2
    d3 = d3
    m1 = m1
    m2 = m2
    g1 = g1
    p1 = p1
    p2 = p2
    p3 = p3
    Users = {u1, u2}
    Watched = u2
    Requests = {r1, r2}
    MaxAttempts = 2
    MaxRows = 4
    MaxCalls = 4
    Invitable = {"admin"}
    Promotable = {"owner", "technician"}
    MaxInvitations = 2
    Bosses = {boss}
    Dispatchers = {}
    Technicians = {fitter}
    NoOne = NoOne
    Workers = {r1, r2}
    PlanRows = {r1, r2}
    Topics = {"contract", "maintenance", "inspection", "correction", "label", "fault", "plan"}
    Chosen = {"contract_renewal_due", "fault_reported"}
    NoticeDays = 1
    CORRECTION_THRESHOLDS = {1}
    LastDay = 2
    MaxTurns <- TurnsOf
    Covers <- CoversOf
    Areas = {"customers", "contacts", "estate", "parties"}
    Customers = {c1, c2}
    Persons = {s1, s2}
    Complexes = {x1}
    Buildings = {b1}
    Lifts = {l1, l2}
    Suppliers = {supplier}
    Tills = {till}
    Clerks = {r1, r2}
    NoRow = NoRow
    Numbers = {n1}
    Names = {"old", "new"}
    Currencies = {"TRY", "EUR"}
    Home = "TRY"
    Tokens = {q1, q2, q3}
    MaxAsked <- AskedOf
    Firms = {f1, f2}
    Clients = {d1, d2, d3}
    Members = {m1, m2}
    Guests = {g1}
    FirmOf <- FirmOfEach
    ClientOf <- ClientOfEach
    Papers = {p1, p2, p3}
    ResourceOf <- ResourceOfEach
    Lifted <- LiftedInEach
    Notes = {"one", "other"}
    Posts = {"admin", "technician"}
    Asked = {"elevator", "fault", "audit_log"}
    Threads = {r1, r2}
    NoFirm = NoFirm
    MaxCame = 2
SYMMETRY OfficeSymmetry
CHECK_DEADLOCK FALSE
INVARIANTS
    TeamHolds
    OneSeatEach
PROPERTIES
    SessionsHold
    
    RecordsHold
    FirmsApart
