\* One command at a time on one host, with two CA files to choose from.
CONSTANTS
    Hosts = {h1}
    Procs = {p1}
    Tokens = {t1, t2}
    CAs = {c1, c2}
    None = None
SPECIFICATION RetrySpec
PROPERTIES
    EnrollmentRecovers
