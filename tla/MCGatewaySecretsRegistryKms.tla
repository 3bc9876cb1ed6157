-------------------- MODULE MCGatewaySecretsRegistryKms ---------------------
(* A shim for API gateways, secrets, images or keys, or the verifier in front  *)
(* of one.                                                                    *)
EXTENDS ApiGateway, Secrets, Registry, Kms, Bearer, TLC

MCDeployments ==
    {"apigateway"} \X {"inmem", "envoy", "gcp", "azure", "aws"}
    \cup {"secrets"} \X {"inmem", "vault", "gcp", "azure", "aws"}
    \cup {"registry"} \X {"inmem", "distribution", "gcp", "azure", "aws"}
    \cup {"kms"} \X {"inmem", "gcp", "azure", "aws"}
    \cup {"bearer"} \X {"inmem", "remote"}
MCSymmetry == Permutations(Clients)

MCInit ==
    /\ ShimInit /\ GatewayInit /\ SecretsInit /\ RegistryInit /\ KmsInit /\ BearerInit
    /\ service # "bearer" => offered = {}
\* A service that was not started does not change.
MCNext ==
    \/ GatewayNext /\ UNCHANGED <<secretsVars, registryVars, kmsVars, bearerVars>>
    \/ SecretsNext /\ UNCHANGED <<gatewayVars, registryVars, kmsVars, bearerVars>>
    \/ RegistryNext /\ UNCHANGED <<gatewayVars, secretsVars, kmsVars, bearerVars>>
    \/ KmsNext /\ UNCHANGED <<gatewayVars, secretsVars, registryVars, bearerVars>>
    \/ BearerNext /\ UNCHANGED <<gatewayVars, secretsVars, registryVars, kmsVars>>
MCSpec == MCInit /\ [][MCNext]_<<shimVars, gatewayVars, secretsVars, registryVars, kmsVars, bearerVars>>
=============================================================================
