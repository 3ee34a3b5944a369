------------------------------ MODULE MCWhiskUsers ------------------------------
(* Users and installations for TLC. *)
EXTENDS WhiskUsers

All       == {"minio", "static", "mongodb", "redis", "postgres"}
Everything == {"data", "route", "mongodb", "redis", "postgres"}
StorageAndRedis == {"data", "route", "redis"}
================================================================================
