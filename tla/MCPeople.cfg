SPECIFICATION Spec
CONSTANTS
 LastDay = 3
 Leaves = {l1, l2}
 Mia = Mia
 Otto = Otto
 Olga = Olga
 Rita = Rita
 Users = {Mia, Otto, Olga, Rita}
 Requester = Rita
 Manager = Mia
 Officers = {Otto, Olga, Rita}
 LeaveTypes <- MCTypes
 LeaveDays = 3
 DayParts = 2
 Calendar <- MCCalendar
 PublicHolidays <- MCHolidays
 Company = "home"
 Everywhere = "everywhere"
 Nobody = Nobody
 Granted <- MCGranted
 AccruedType = "annual"
 AccrualRate = 1
 AccrualPeriod = 1
 AccrualCaps = {0, 2}
 AccrualRuns = {r1, r2}
 Contracts = {c1, c2}
 Clerks = {k1}
 NoDate = NoDate
 DateRange = {0, 1}
 Applicants = {a1, a2}
 Employees = {e1, e2}
 Referrals = {f1}
 Recruiters = {u1, u2}
 Stages = {"first", "last"}
 FirstStage = "first"
 Unset = Unset
 Appraisals = {p1, p2}
 Sections = 1
 HRUsers = {h1, h2}
 Frequencies = {0, 1}
 Never = Never
 Departments = {d1, d2, d3}
 Staff = {s1, s2}
 Accounts = {x1}
 Skills = {"cooking", "piano"}
 Levels = {"apprentice", "pianist"}
 TypeOf <- MCTypeOf
 Editors = {i1, i2}
 None = None
 Drivers = {v1, v2}
 Dispatchers = {w1}
 MaxReadings = 2
 MaxValue = 2
 Services = {b1}
 AlertWindow = 1
 NoDriver = NoDriver
SYMMETRY Symmetry
INVARIANTS LeavesFit ApprovedByOthers AccrualExact OneContractRuns RecruitsLinked NextIsPlanned DirectorySound FleetKept
