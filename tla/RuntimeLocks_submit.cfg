SPECIFICATION Spec
CONSTANTS
    Callers = {c1, c2}
    Nobody = Nobody
    Called = {"submit_job", "report_job_status"}
INVARIANT NoCircularWait
