------------------------------ MODULE MCControl ------------------------------
EXTENDS ControlPlane
MCDeployments ==
    ({"rdbms"} \X {"inmem", "cnpg", "gcp", "azure", "aws"})
    \cup ({"cache"} \X {"inmem", "redisop", "gcp", "azure", "aws"})
    \cup ({"functions"} \X {"inmem", "knative", "gcp", "azure", "aws"})
=============================================================================
